---------------------------- MODULE Spec2Model ----------------------------
(***************************************************************************)
(* The input-event pipeline of anima-engine: the stateful filters Cursor,  *)
(* Button and SelectableArea (src/src/input/intermediate).  Each filter    *)
(* consumes a whole batch of InputEvents in one call of process, mutates   *)
(* its own fields and returns the transformed batch.                       *)
(*                                                                         *)
(* A call of process is one action.  The batch handed in and the batch     *)
(* returned are kept (with the fields as they were when the call began)    *)
(* until the caller drops the returned Vec; then the next call can start.  *)
(*                                                                         *)
(* Besides the pipeline: GameLoop::run (src/src/game), and of src/src/math *)
(* the identity, product and inverse of Matrix and the interpolation of a  *)
(* BezierPath.  An f32 is NaN, an infinity or an exact fraction: rounding  *)
(* and the sign of zero are not modelled.                                  *)
(***************************************************************************)
EXTENDS Integers, Sequences, FiniteSets, TLC

VARIABLES
    cursor_pos,          \* Cursor.pos : Option<(i32, i32)>
    cursor_pressed,      \* Cursor.pressed : HashMap<MouseButton, bool>
    cursor_call,         \* the call of Cursor::process whose result the caller holds
    button_self,         \* Button: id, x, y, width, height and pressed
    button_call,         \* the call of Button::process whose result the caller holds
    area_self,           \* SelectableArea: id, x, y, width, height, special,
                         \* pressed and special_pressed
    area_call,           \* the call of SelectableArea::process that ended last
    overflow_checks,     \* the build profile: TRUE when integer overflow is
                         \* checked (dev and test), FALSE when it wraps
                         \* (release)
    inside_call,         \* the call of inside(x, y) that ended last
    loop_pc,             \* GameLoop::run: "new" before the call, "loop" inside
                         \* the loop, "returned" after it
    loop_clock,          \* the reading of the system clock
    loop_last,           \* the local `last` of GameLoop::run
    loop_samples,        \* the values time::get_time() returned, in order
    loop_calls,          \* the calls of Game::update: now, dt and the result
    math_self,           \* the Matrix or BezierPath a method is called on
    math_call,           \* the call of a method of math that ended last
    pipe_cursor,         \* the Cursor at the head of a chain of filters
    pipe_a,              \* the Button that is given the batch of the Cursor
    pipe_b,              \* the Button that is given the batch of Button A
    pipe_frame           \* the frame of the chain that ended last

\* A call record is None, or Some([pre, input, output]): the filter's fields
\* when the call began, the batch it was given and the batch it returned.
\* The record of a Button's call also holds trace: self.pressed as it was
\* after each event of the batch, and panicked: the call unwound from an
\* overflowing subtraction and returned nothing.  The record of a SelectableArea's call
\* holds trace, the two slots after each event, and panicked: the call
\* unwound from an unwrap of None and returned nothing.
\* The records of a Button and of a SelectableArea also hold dt, the
\* Duration the call was given (in milliseconds).

cursor_vars == <<cursor_pos, cursor_pressed, cursor_call>>
button_vars == <<button_self, button_call, overflow_checks, inside_call>>
area_vars   == <<area_self, area_call>>
loop_vars   == <<loop_pc, loop_clock, loop_last, loop_samples, loop_calls>>
math_vars   == <<math_self, math_call>>
pipe_vars   == <<pipe_cursor, pipe_a, pipe_b, pipe_frame>>
vars == <<cursor_vars, button_vars, area_vars, loop_vars, math_vars, pipe_vars>>

---------------------------------------------------------------------------
(* Bounds of the model *)

\* the longest batch handed to one call of process
MaxBatch == 3

\* the Game stops in its MaxFrames-th frame at the latest
MaxFrames == 3

\* between two readings the system clock moves forward by MaxTick at most,
\* and it may be set back by MaxBack at most
MaxTick == 2
MaxBack == 1

---------------------------------------------------------------------------
(* Option<T>: None is the empty sequence, Some(v) the one-element sequence *)

None == <<>>
Some(v) == <<v>>
IsSome(o) == o # None
Unwrap(o) == o[1]

---------------------------------------------------------------------------
(* The event model: InputEvent = Raw(glutin::Event) | Intermediate(..).    *)
(* Every event is a record of the same shape; the fields a variant does    *)
(* not carry hold the fillers 0 and "-".                                   *)
(* A touch location is a pair of f64; the model writes it in halves, so    *)
(* x = 101 stands for 50.5.                                                *)

Ev(kind, phase, x, y, button, id) ==
    [kind |-> kind, phase |-> phase, x |-> x, y |-> y, button |-> button, id |-> id]

MouseMoved(x, y)            == Ev("MouseMoved", "-", x, y, "-", 0)
MouseInput(state, button)   == Ev("MouseInput", state, 0, 0, button, 0)
Touch(phase, hx, hy, id)    == Ev("Touch", phase, hx, hy, "-", id)
ButtonPressed(id)           == Ev("ButtonPressed", "-", 0, 0, "-", id)
ButtonCanceled(id)          == Ev("ButtonCanceled", "-", 0, 0, "-", id)
ButtonReleased(id)          == Ev("ButtonReleased", "-", 0, 0, "-", id)
CursorPressed(x, y, button) == Ev("CursorPressed", "-", x, y, button, 0)
CursorReleased(x, y, button) == Ev("CursorReleased", "-", x, y, button, 0)
SelectablePressed(id, x, y)  == Ev("SelectablePressed", "-", x, y, "-", id)
SelectableDragged(id, x, y)  == Ev("SelectableDragged", "-", x, y, "-", id)
SelectableReleased(id, x, y) == Ev("SelectableReleased", "-", x, y, "-", id)
SelectableSpecialPressed(id, x, y)  == Ev("SelectableSpecialPressed", "-", x, y, "-", id)
SelectableSpecialDragged(id, x, y)  == Ev("SelectableSpecialDragged", "-", x, y, "-", id)
SelectableSpecialReleased(id, x, y) == Ev("SelectableSpecialReleased", "-", x, y, "-", id)

\* the sequences over S of length at most n
RECURSIVE SeqsUpTo(_, _)
SeqsUpTo(S, n) ==
    IF n = 0 THEN {<<>>}
    ELSE LET shorter == SeqsUpTo(S, n - 1)
         IN  shorter \cup {Append(s, e) : s \in {t \in shorter : Len(t) = n - 1}, e \in S}

---------------------------------------------------------------------------
(* Cursor *)

\* HashMap::insert
MapInsert(m, k, v) == [b \in DOMAIN m \cup {k} |-> IF b = k THEN v ELSE m[b]]

\* Cursor::new
CursorNew == [pos |-> None, pressed |-> [b \in {} |-> FALSE]]

\* CursorClosure with a slip: a release met before any move is reported at
\* the origin instead of being swallowed
CursorClosure_ReleaseAtOrigin(st, event) ==
    CASE event.kind = "MouseMoved" ->
            [st   |-> [st EXCEPT !.pos = Some(<<event.x, event.y>>)],
             emit |-> None]
      [] event.kind = "MouseInput" /\ event.phase = "Pressed" ->
            [st   |-> [st EXCEPT !.pressed = MapInsert(st.pressed, event.button, TRUE)],
             emit |-> None]
      [] event.kind = "MouseInput" /\ event.phase = "Released" ->
            [st   |-> [st EXCEPT !.pressed = MapInsert(st.pressed, event.button, FALSE)],
             emit |-> IF IsSome(st.pos)
                      THEN Some(CursorReleased(Unwrap(st.pos)[1], Unwrap(st.pos)[2],
                                               event.button))
                      ELSE Some(CursorReleased(0, 0, event.button))]
      [] OTHER ->
            [st |-> st, emit |-> Some(event)]

\* CursorClosure with a slip: a release is reported only for a button that
\* was held
CursorClosure_ReleaseOnlyIfHeld(st, event) ==
    CASE event.kind = "MouseMoved" ->
            [st   |-> [st EXCEPT !.pos = Some(<<event.x, event.y>>)],
             emit |-> None]
      [] event.kind = "MouseInput" /\ event.phase = "Pressed" ->
            [st   |-> [st EXCEPT !.pressed = MapInsert(st.pressed, event.button, TRUE)],
             emit |-> None]
      [] event.kind = "MouseInput" /\ event.phase = "Released" ->
            [st   |-> [st EXCEPT !.pressed = MapInsert(st.pressed, event.button, FALSE)],
             emit |-> IF /\ IsSome(st.pos)
                         /\ event.button \in DOMAIN st.pressed
                         /\ st.pressed[event.button]
                      THEN Some(CursorReleased(Unwrap(st.pos)[1], Unwrap(st.pos)[2],
                                               event.button))
                      ELSE None]
      [] OTHER ->
            [st |-> st, emit |-> Some(event)]

\* CursorClosure with a slip: every raw event is consumed, touches included
CursorClosure_DropsRaw(st, event) ==
    CASE event.kind = "MouseMoved" ->
            [st   |-> [st EXCEPT !.pos = Some(<<event.x, event.y>>)],
             emit |-> None]
      [] event.kind = "MouseInput" /\ event.phase = "Pressed" ->
            [st   |-> [st EXCEPT !.pressed = MapInsert(st.pressed, event.button, TRUE)],
             emit |-> None]
      [] event.kind = "MouseInput" /\ event.phase = "Released" ->
            [st   |-> [st EXCEPT !.pressed = MapInsert(st.pressed, event.button, FALSE)],
             emit |-> IF IsSome(st.pos)
                      THEN Some(CursorReleased(Unwrap(st.pos)[1], Unwrap(st.pos)[2],
                                               event.button))
                      ELSE None]
      [] event.kind = "Touch" ->
            [st |-> st, emit |-> None]
      [] OTHER ->
            [st |-> st, emit |-> Some(event)]

\* CursorClosure with a slip: a move updates the position and is re-emitted
CursorClosure_MovePassed(st, event) ==
    CASE event.kind = "MouseMoved" ->
            [st   |-> [st EXCEPT !.pos = Some(<<event.x, event.y>>)],
             emit |-> Some(event)]
      [] event.kind = "MouseInput" /\ event.phase = "Pressed" ->
            [st   |-> [st EXCEPT !.pressed = MapInsert(st.pressed, event.button, TRUE)],
             emit |-> None]
      [] event.kind = "MouseInput" /\ event.phase = "Released" ->
            [st   |-> [st EXCEPT !.pressed = MapInsert(st.pressed, event.button, FALSE)],
             emit |-> IF IsSome(st.pos)
                      THEN Some(CursorReleased(Unwrap(st.pos)[1], Unwrap(st.pos)[2],
                                               event.button))
                      ELSE None]
      [] OTHER ->
            [st |-> st, emit |-> Some(event)]

\* CursorClosure with a slip: a move also notes the Left button as free in
\* the map
CursorClosure_MoveNotesLeft(st, event) ==
    CASE event.kind = "MouseMoved" ->
            [st   |-> [st EXCEPT !.pos = Some(<<event.x, event.y>>),
                                 !.pressed = MapInsert(st.pressed, "Left", FALSE)],
             emit |-> None]
      [] event.kind = "MouseInput" /\ event.phase = "Pressed" ->
            [st   |-> [st EXCEPT !.pressed = MapInsert(st.pressed, event.button, TRUE)],
             emit |-> None]
      [] event.kind = "MouseInput" /\ event.phase = "Released" ->
            [st   |-> [st EXCEPT !.pressed = MapInsert(st.pressed, event.button, FALSE)],
             emit |-> IF IsSome(st.pos)
                      THEN Some(CursorReleased(Unwrap(st.pos)[1], Unwrap(st.pos)[2],
                                               event.button))
                      ELSE None]
      [] OTHER ->
            [st |-> st, emit |-> Some(event)]

\* CursorClosure with a slip: a press met before any move is not recorded
CursorClosure_PressNeedsPosition(st, event) ==
    CASE event.kind = "MouseMoved" ->
            [st   |-> [st EXCEPT !.pos = Some(<<event.x, event.y>>)],
             emit |-> None]
      [] event.kind = "MouseInput" /\ event.phase = "Pressed" ->
            [st   |-> IF IsSome(st.pos)
                      THEN [st EXCEPT !.pressed = MapInsert(st.pressed, event.button, TRUE)]
                      ELSE st,
             emit |-> None]
      [] event.kind = "MouseInput" /\ event.phase = "Released" ->
            [st   |-> [st EXCEPT !.pressed = MapInsert(st.pressed, event.button, FALSE)],
             emit |-> IF IsSome(st.pos)
                      THEN Some(CursorReleased(Unwrap(st.pos)[1], Unwrap(st.pos)[2],
                                               event.button))
                      ELSE None]
      [] OTHER ->
            [st |-> st, emit |-> Some(event)]

\* CursorClosure with a slip: a release is reported but the button stays
\* held
CursorClosure_ReleaseKeepsHeld(st, event) ==
    CASE event.kind = "MouseMoved" ->
            [st   |-> [st EXCEPT !.pos = Some(<<event.x, event.y>>)],
             emit |-> None]
      [] event.kind = "MouseInput" /\ event.phase = "Pressed" ->
            [st   |-> [st EXCEPT !.pressed = MapInsert(st.pressed, event.button, TRUE)],
             emit |-> None]
      [] event.kind = "MouseInput" /\ event.phase = "Released" ->
            [st   |-> st,
             emit |-> IF IsSome(st.pos)
                      THEN Some(CursorReleased(Unwrap(st.pos)[1], Unwrap(st.pos)[2],
                                               event.button))
                      ELSE None]
      [] OTHER ->
            [st |-> st, emit |-> Some(event)]

\* one call of the closure of Cursor::process on one event
CursorClosure(st, event) ==
    CASE event.kind = "MouseMoved" ->
            [st   |-> [st EXCEPT !.pos = Some(<<event.x, event.y>>)],
             emit |-> None]
      [] event.kind = "MouseInput" /\ event.phase = "Pressed" ->
            [st   |-> [st EXCEPT !.pressed = MapInsert(st.pressed, event.button, TRUE)],
             emit |-> None]
      [] event.kind = "MouseInput" /\ event.phase = "Released" ->
            [st   |-> [st EXCEPT !.pressed = MapInsert(st.pressed, event.button, FALSE)],
             emit |-> IF IsSome(st.pos)
                      THEN Some(CursorReleased(Unwrap(st.pos)[1], Unwrap(st.pos)[2],
                                               event.button))
                      ELSE None]
      [] OTHER ->
            [st |-> st, emit |-> Some(event)]

\* input.into_iter().filter_map(closure).collect() of Cursor::process: the
\* fields after the whole batch and the events the closure returned, in order
RECURSIVE CursorFilterMap(_, _)
CursorFilterMap(st, input) ==
    IF input = <<>> THEN [st |-> st, out |-> <<>>]
    ELSE LET r    == CursorClosure(st, Head(input))
             rest == CursorFilterMap(r.st, Tail(input))
         IN  [st |-> rest.st, out |-> r.emit \o rest.out]

\* the orders in which self.pressed.iter() can visit the keys of the map:
\* a HashMap has no defined iteration order
IterOrders(pressed) ==
    LET n == Cardinality(DOMAIN pressed)
    IN  {o \in [1..n -> DOMAIN pressed] : \A i, j \in 1..n : o[i] = o[j] => i = j}

\* CursorSweep with a slip: the test of the held flag is left out, so every
\* button of the map is reported
CursorSweep_EveryKey(st, o) ==
    IF IsSome(st.pos)
    THEN [i \in 1..Len(o) |->
            CursorPressed(Unwrap(st.pos)[1], Unwrap(st.pos)[2], o[i])]
    ELSE <<>>

\* CursorSweep with a slip: the test of the held flag is inverted
CursorSweep_Inverted(st, o) ==
    IF IsSome(st.pos)
    THEN LET IsNotHeld(b) == ~st.pressed[b]
             free == SelectSeq(o, IsNotHeld)
         IN  [i \in 1..Len(free) |->
                CursorPressed(Unwrap(st.pos)[1], Unwrap(st.pos)[2], free[i])]
    ELSE <<>>

\* the loop after the filter_map: the events pushed when the map is visited
\* in the order o
CursorSweep(st, o) ==
    IF IsSome(st.pos)
    THEN LET IsHeld(b) == st.pressed[b]
             held == SelectSeq(o, IsHeld)
         IN  [i \in 1..Len(held) |->
                CursorPressed(Unwrap(st.pos)[1], Unwrap(st.pos)[2], held[i])]
    ELSE <<>>

\* the points, buttons and events the batches of the Cursor are made of
CursorPoints  == {<<50, 50>>, <<10, 50>>}
CursorButtons == {"Left", "Right"}
CursorEvents ==
    {MouseMoved(p[1], p[2]) : p \in CursorPoints}
       \cup {MouseInput(s, b) : s \in {"Pressed", "Released"}, b \in CursorButtons}
       \cup {Touch("Started", 100, 100, 0), ButtonPressed(3), CursorPressed(50, 50, "Left")}

CursorInit ==
    /\ cursor_pos = CursorNew.pos
    /\ cursor_pressed = CursorNew.pressed
    /\ cursor_call = None

\* the batches a call of Cursor::process is given
CursorBatches == SeqsUpTo(CursorEvents, MaxBatch)

\* Cursor::process(input), for any batch input
CursorProcess ==
    /\ cursor_call = None
    /\ \E input \in CursorBatches :
         LET pre == [pos |-> cursor_pos, pressed |-> cursor_pressed]
             r   == CursorFilterMap(pre, input)
         IN  \E o \in IterOrders(r.st.pressed) :
               /\ cursor_pos' = r.st.pos
               /\ cursor_pressed' = r.st.pressed
               /\ cursor_call' = Some([pre |-> pre, input |-> input,
                                       output |-> r.out \o CursorSweep(r.st, o)])
    /\ UNCHANGED <<button_vars, area_vars, loop_vars, math_vars, pipe_vars>>

\* the caller drops the batch Cursor::process returned
CursorDrop ==
    /\ cursor_call # None
    /\ cursor_call' = None
    /\ UNCHANGED <<cursor_pos, cursor_pressed, button_vars, area_vars, loop_vars, math_vars, pipe_vars>>

CursorNext ==
    \/ CursorProcess
    \/ CursorDrop

---------------------------------------------------------------------------
(* Button *)

\* Button::new
ButtonNew(id, x, y, width, height) ==
    [id |-> id, x |-> x, y |-> y, width |-> width, height |-> height, pressed |-> FALSE]

\* the range of i32
I32Max == 2147483647
I32Min == -I32Max - 1

\* the subtraction a - b of two i32 overflows
SubOverflows(a, b) == IF b >= 0 THEN a < I32Min + b ELSE a > I32Max + b

\* a - b of two i32 as it wraps: the difference modulo 2^32, in the range of
\* i32 (2^32 is written I32Max - I32Min + 1, by parts that fit i32)
WrappingSub(a, b) ==
    IF ~SubOverflows(a, b) THEN a - b
    ELSE IF b >= 0 THEN ((a - I32Min) + (I32Max - b)) + 1
    ELSE ((a - I32Max) + (I32Min - b)) - 1

\* Button::inside with both comparisons strict at the far edges
Inside_FarEdgeOut(self, x, y) ==
    LET dx == WrappingSub(x, self.x)
        dy == WrappingSub(y, self.y)
    IN  0 <= dx /\ dx < self.width /\ 0 <= dy /\ dy < self.height

\* Button::inside, as it returns when the subtractions wrap
Inside(self, x, y) ==
    LET dx == WrappingSub(x, self.x)
        dy == WrappingSub(y, self.y)
    IN  0 <= dx /\ dx <= self.width /\ 0 <= dy /\ dy <= self.height

\* one of the two subtractions of Button::inside overflows i32
InsideOverflows(self, x, y) == SubOverflows(x, self.x) \/ SubOverflows(y, self.y)

\* the cast `as i32` of a touch coordinate given in halves: the fraction is
\* cut off, towards zero (a location that halves can name lies within the
\* range of i32, where the cast does not saturate)
AsI32(h) == IF h >= 0 THEN h \div 2 ELSE -((-h) \div 2)

\* ButtonTouchStarted with a slip: a held Button looks at the location too
ButtonTouchStarted_LooksWhenHeld(self, touch) ==
    IF Inside(self, AsI32(touch.x), AsI32(touch.y))
    THEN [st   |-> [self EXCEPT !.pressed = TRUE],
          emit |-> Some(ButtonPressed(self.id))]
    ELSE [st |-> self, emit |-> Some(touch)]

\* the arm TouchPhase::Started
ButtonTouchStarted(self, touch) ==
    IF self.pressed
    THEN [st |-> self, emit |-> Some(ButtonPressed(self.id))]
    ELSE IF Inside(self, AsI32(touch.x), AsI32(touch.y))
         THEN [st   |-> [self EXCEPT !.pressed = TRUE],
               emit |-> Some(ButtonPressed(self.id))]
         ELSE [st |-> self, emit |-> Some(touch)]

\* the arm TouchPhase::Moved
ButtonTouchMoved(self, touch) ==
    IF self.pressed
    THEN [st |-> self, emit |-> Some(ButtonPressed(self.id))]
    ELSE [st |-> self, emit |-> Some(touch)]

\* ButtonTouchEnded with a slip: the end of a touch is never a cancel
ButtonTouchEnded_NeverCanceled(self, touch) ==
    IF self.pressed
    THEN [st   |-> [self EXCEPT !.pressed = FALSE],
          emit |-> Some(ButtonReleased(self.id))]
    ELSE [st |-> self, emit |-> Some(touch)]

\* ButtonTouchEnded with a slip: self.pressed is not reset
ButtonTouchEnded_KeepsFlag(self, touch) ==
    IF self.pressed
    THEN [st   |-> self,
          emit |-> IF Inside(self, AsI32(touch.x), AsI32(touch.y))
                   THEN Some(ButtonReleased(self.id))
                   ELSE Some(ButtonCanceled(self.id))]
    ELSE [st |-> self, emit |-> Some(touch)]

\* ButtonTouchEnded with a slip: only the first finger can end the press
ButtonTouchEnded_FirstFingerOnly(self, touch) ==
    IF self.pressed /\ touch.id = 0
    THEN [st   |-> [self EXCEPT !.pressed = FALSE],
          emit |-> IF Inside(self, AsI32(touch.x), AsI32(touch.y))
                   THEN Some(ButtonReleased(self.id))
                   ELSE Some(ButtonCanceled(self.id))]
    ELSE [st |-> self, emit |-> Some(touch)]

\* the arm TouchPhase::Ended
ButtonTouchEnded(self, touch) ==
    IF self.pressed
    THEN [st   |-> [self EXCEPT !.pressed = FALSE],
          emit |-> IF Inside(self, AsI32(touch.x), AsI32(touch.y))
                   THEN Some(ButtonReleased(self.id))
                   ELSE Some(ButtonCanceled(self.id))]
    ELSE [st |-> self, emit |-> Some(touch)]

\* ButtonTouchCancelled as it would be if the cancel released the Button
ButtonTouchCancelled_ClearsFlag(self, touch) ==
    IF self.pressed
    THEN [st   |-> [self EXCEPT !.pressed = FALSE],
          emit |-> Some(ButtonCanceled(self.id))]
    ELSE [st |-> self, emit |-> Some(touch)]

\* the arm TouchPhase::Cancelled: self.pressed is not written
ButtonTouchCancelled(self, touch) ==
    IF self.pressed
    THEN [st |-> self, emit |-> Some(ButtonCanceled(self.id))]
    ELSE [st |-> self, emit |-> Some(touch)]

\* the match on touch.phase in the closure of Button::process
ButtonTouch(self, touch) ==
    CASE touch.phase = "Started"   -> ButtonTouchStarted(self, touch)
      [] touch.phase = "Moved"     -> ButtonTouchMoved(self, touch)
      [] touch.phase = "Ended"     -> ButtonTouchEnded(self, touch)
      [] touch.phase = "Cancelled" -> ButtonTouchCancelled(self, touch)

\* ButtonClosure with a slip: the arms do not look at the mouse button
ButtonClosure_AnyButton(self, event) ==
    CASE event.kind = "CursorPressed" /\ Inside(self, event.x, event.y) ->
            [st   |-> [self EXCEPT !.pressed = TRUE],
             emit |-> Some(ButtonPressed(self.id))]
      [] event.kind = "CursorPressed"
            /\ ~Inside(self, event.x, event.y) /\ self.pressed ->
            [st |-> self, emit |-> Some(ButtonPressed(self.id))]
      [] event.kind = "CursorReleased" /\ self.pressed ->
            [st   |-> [self EXCEPT !.pressed = FALSE],
             emit |-> IF Inside(self, event.x, event.y)
                      THEN Some(ButtonReleased(self.id))
                      ELSE Some(ButtonCanceled(self.id))]
      [] event.kind = "Touch" -> ButtonTouch(self, event)
      [] OTHER -> [st |-> self, emit |-> Some(event)]

\* ButtonClosure with a slip: a release of the held Button is never a cancel
ButtonClosure_NeverCanceled(self, event) ==
    CASE event.kind = "CursorPressed" /\ event.button = "Left"
            /\ Inside(self, event.x, event.y) ->
            [st   |-> [self EXCEPT !.pressed = TRUE],
             emit |-> Some(ButtonPressed(self.id))]
      [] event.kind = "CursorPressed" /\ event.button = "Left"
            /\ ~Inside(self, event.x, event.y) /\ self.pressed ->
            [st |-> self, emit |-> Some(ButtonPressed(self.id))]
      [] event.kind = "CursorReleased" /\ event.button = "Left" /\ self.pressed ->
            [st   |-> [self EXCEPT !.pressed = FALSE],
             emit |-> Some(ButtonReleased(self.id))]
      [] event.kind = "Touch" -> ButtonTouch(self, event)
      [] OTHER -> [st |-> self, emit |-> Some(event)]

\* ButtonClosure with a slip: the arm that echoes a press outside the
\* rectangle while the Button is held is missing
ButtonClosure_NoEchoOutside(self, event) ==
    CASE event.kind = "CursorPressed" /\ event.button = "Left"
            /\ Inside(self, event.x, event.y) ->
            [st   |-> [self EXCEPT !.pressed = TRUE],
             emit |-> Some(ButtonPressed(self.id))]
      [] event.kind = "CursorReleased" /\ event.button = "Left" /\ self.pressed ->
            [st   |-> [self EXCEPT !.pressed = FALSE],
             emit |-> IF Inside(self, event.x, event.y)
                      THEN Some(ButtonReleased(self.id))
                      ELSE Some(ButtonCanceled(self.id))]
      [] event.kind = "Touch" -> ButtonTouch(self, event)
      [] OTHER -> [st |-> self, emit |-> Some(event)]

\* ButtonClosure with a slip: a press is answered once, when it begins; a
\* held Button passes the later presses on
ButtonClosure_EdgeTriggered(self, event) ==
    CASE event.kind = "CursorPressed" /\ event.button = "Left"
            /\ Inside(self, event.x, event.y) /\ ~self.pressed ->
            [st   |-> [self EXCEPT !.pressed = TRUE],
             emit |-> Some(ButtonPressed(self.id))]
      [] event.kind = "CursorReleased" /\ event.button = "Left" /\ self.pressed ->
            [st   |-> [self EXCEPT !.pressed = FALSE],
             emit |-> IF Inside(self, event.x, event.y)
                      THEN Some(ButtonReleased(self.id))
                      ELSE Some(ButtonCanceled(self.id))]
      [] event.kind = "Touch" -> ButtonTouch(self, event)
      [] OTHER -> [st |-> self, emit |-> Some(event)]

\* one call of the closure of Button::process on one event; the arms of the
\* match are tried in the order of the source
ButtonClosure(self, event) ==
    CASE event.kind = "CursorPressed" /\ event.button = "Left"
            /\ Inside(self, event.x, event.y) ->
            [st   |-> [self EXCEPT !.pressed = TRUE],
             emit |-> Some(ButtonPressed(self.id))]
      [] event.kind = "CursorPressed" /\ event.button = "Left"
            /\ ~Inside(self, event.x, event.y) /\ self.pressed ->
            [st |-> self, emit |-> Some(ButtonPressed(self.id))]
      [] event.kind = "CursorReleased" /\ event.button = "Left" /\ self.pressed ->
            [st   |-> [self EXCEPT !.pressed = FALSE],
             emit |-> IF Inside(self, event.x, event.y)
                      THEN Some(ButtonReleased(self.id))
                      ELSE Some(ButtonCanceled(self.id))]
      [] event.kind = "Touch" -> ButtonTouch(self, event)
      [] OTHER -> [st |-> self, emit |-> Some(event)]

\* the closure of Button::process calls inside(x, y) on this event, and with
\* which point: the guard of the first arm, the body of the third arm, and
\* the arms Started (not held) and Ended (held) of a touch
CallsInside(self, event) ==
    \/ event.kind = "CursorPressed" /\ event.button = "Left"
    \/ event.kind = "CursorReleased" /\ event.button = "Left" /\ self.pressed
    \/ event.kind = "Touch" /\ event.phase = "Started" /\ ~self.pressed
    \/ event.kind = "Touch" /\ event.phase = "Ended" /\ self.pressed
InsideArgs(event) ==
    IF event.kind = "Touch" THEN <<AsI32(event.x), AsI32(event.y)>>
    ELSE <<event.x, event.y>>

\* the closure panics on this event: a subtraction of inside overflows in a
\* build that checks overflow
ButtonClosurePanics(self, event) ==
    /\ overflow_checks
    /\ CallsInside(self, event)
    /\ InsideOverflows(self, InsideArgs(event)[1], InsideArgs(event)[2])

\* the fields the panic leaves: the third arm and the arm Ended have
\* written self.pressed = false before they call inside
ButtonUnwound(self, event) ==
    IF event.kind = "CursorReleased" \/ (event.kind = "Touch" /\ event.phase = "Ended")
    THEN [self EXCEPT !.pressed = FALSE]
    ELSE self

\* input.into_iter().filter_map(closure).collect() of Button::process: the
\* fields after the whole batch, the events the closure returned, in order,
\* and self.pressed after each event; a panic of the closure ends the call
\* with nothing returned
RECURSIVE ButtonFilterMap(_, _)
ButtonFilterMap(self, input) ==
    IF input = <<>>
    THEN [st |-> self, out |-> <<>>, trace |-> <<>>, panic |-> FALSE]
    ELSE IF ButtonClosurePanics(self, Head(input))
    THEN [st |-> ButtonUnwound(self, Head(input)), out |-> <<>>, trace |-> <<>>,
          panic |-> TRUE]
    ELSE LET r    == ButtonClosure(self, Head(input))
             rest == ButtonFilterMap(r.st, Tail(input))
         IN  [st    |-> rest.st,
              out   |-> IF rest.panic THEN <<>> ELSE r.emit \o rest.out,
              trace |-> <<r.st.pressed>> \o rest.trace,
              panic |-> rest.panic]

\* the Buttons, points and events of the model: the Button and the points
\* of the tests, and a Button of one point
ButtonId == 3
Buttons ==
    {ButtonNew(ButtonId, 40, 40, 20, 20), ButtonNew(ButtonId, 50, 50, 0, 0)}
ButtonPoints == {<<50, 50>>, <<50, 51>>, <<10, 50>>}
\* touch locations in halves: (50.5, 50.5), cut to (50, 50), and (39.5, 50.0),
\* cut to (39, 50)
TouchLocations == {<<101, 101>>, <<79, 100>>}
ButtonEvents ==
    {CursorPressed(p[1], p[2], "Left") : p \in ButtonPoints}
       \cup {CursorReleased(p[1], p[2], "Left") : p \in ButtonPoints}
       \cup {CursorPressed(50, 50, "Right"), CursorReleased(50, 50, "Right")}
       \cup {Touch(ph, l[1], l[2], 0) :
                ph \in {"Started", "Moved", "Ended", "Cancelled"}, l \in TouchLocations}
       \cup {MouseMoved(50, 50)}

\* the events of the model at the ends of the i32 range: presses and
\* releases whose distance to the rectangle does not fit i32, and some of
\* the events above
ButtonWideEvents ==
    {CursorPressed(I32Min, 50, "Left"), CursorReleased(50, I32Min, "Left"),
     CursorPressed(I32Max, 50, "Left"), CursorReleased(I32Max, 50, "Left"),
     CursorPressed(50, 50, "Left"), CursorReleased(50, 50, "Left"),
     Touch("Started", 101, 101, 0), Touch("Ended", 101, 101, 0),
     MouseMoved(50, 50)}

ButtonInit ==
    /\ button_self \in Buttons
    /\ button_call = None
    /\ overflow_checks \in BOOLEAN
    /\ inside_call = None

\* the batches a call of Button::process is given
ButtonBatches == SeqsUpTo(ButtonEvents, MaxBatch)
ButtonWideBatches == SeqsUpTo(ButtonWideEvents, MaxBatch)

\* the dt of a call, in milliseconds: no time, one frame, one second
Durations == {0, 16, 1000}
\* the dt of the calls whose batches are long
OneFrame == {16}

\* Button::process with a slip: a frame of no length is passed on untouched
ButtonProcessDt_SkipsEmptyFrame(self, input, dt) ==
    IF dt = 0
    THEN [st |-> self, out |-> input, trace |-> ButtonFilterMap(self, input).trace,
          panic |-> FALSE]
    ELSE ButtonFilterMap(self, input)

\* the body of Button::process(input, _dt): the filter_map over input
ButtonProcessDt(self, input, dt) == ButtonFilterMap(self, input)

\* Button::process(input, dt), for any batch input of batches and any dt of dts
ButtonProcessOn(batches, dts) ==
    /\ button_call = None
    /\ \E input \in batches, dt \in dts :
         LET r == ButtonProcessDt(button_self, input, dt)
         IN  /\ button_self' = r.st
             /\ button_call' = Some([pre |-> button_self, input |-> input,
                                     output |-> r.out, trace |-> r.trace,
                                     panicked |-> r.panic, dt |-> dt])
    /\ UNCHANGED <<overflow_checks, inside_call, cursor_vars, area_vars, loop_vars, math_vars, pipe_vars>>

ButtonProcess == ButtonProcessOn(ButtonBatches, OneFrame)
ButtonProcessWide == ButtonProcessOn(ButtonWideBatches, OneFrame)

\* the caller drops the batch Button::process returned
ButtonDrop ==
    /\ button_call # None
    /\ button_call' = None
    /\ UNCHANGED <<button_self, overflow_checks, inside_call, cursor_vars, area_vars,
                   loop_vars, math_vars, pipe_vars>>

ButtonNext ==
    \/ ButtonProcess
    \/ ButtonDrop
ButtonWideNext == ButtonProcessWide \/ ButtonDrop

\* the touch ids of the model: two fingers
TouchIds == {0, 1}
\* the events of the model for several fingers and the mouse: touches of
\* either finger inside the rectangle, their ends inside and outside it, and
\* the press and the release of Left inside it
ButtonTouchEvents ==
    {Touch(ph, 101, 101, id) : ph \in {"Started", "Ended", "Cancelled"}, id \in TouchIds}
       \cup {Touch(ph, 79, 100, id) : ph \in {"Moved", "Ended"}, id \in TouchIds}
       \cup {CursorPressed(50, 50, "Left"), CursorReleased(50, 50, "Left")}
ButtonTouchBatches == SeqsUpTo(ButtonTouchEvents, MaxBatch)

\* Button::process(input, dt), for any batch of touches of several fingers
ButtonProcessTouches == ButtonProcessOn(ButtonTouchBatches, OneFrame)
ButtonTouchNext == ButtonProcessTouches \/ ButtonDrop

---------------------------------------------------------------------------
(* SelectableArea *)

\* SpecialSelect { button, touch_time }
SpecialSelect(button, touch_time) == [button |-> button, touch_time |-> touch_time]

\* SelectableArea::new
SelectableAreaNew(id, x, y, width, height, special) ==
    [id |-> id, x |-> x, y |-> y, width |-> width, height |-> height,
     special |-> special, pressed |-> None, special_pressed |-> None]

\* inside with a slip: every point counts as inside
AreaInside_Everywhere(self, x, y) == TRUE

\* SelectableArea::inside
AreaInside(self, x, y) ==
    LET dx == WrappingSub(x, self.x)
        dy == WrappingSub(y, self.y)
    IN  0 <= dx /\ dx <= self.width /\ 0 <= dy /\ dy <= self.height

\* IsSpecialButton with a slip: the button of the event is not compared
IsSpecialButton_AnyConfigured(self, button) == IsSome(self.special)

\* self.special.is_some() && self.special.unwrap().button == button
IsSpecialButton(self, button) ==
    IsSome(self.special) /\ Unwrap(self.special).button = button

\* what the closure does with one event: the fields after it, the event it
\* returns, and whether it panicked instead
Returned(st, event) == [st |-> st, emit |-> Some(event), panic |-> FALSE]
Panicked(st)        == [st |-> st, emit |-> None, panic |-> TRUE]

\* AreaPressNew with a slip: the press also clears the special slot
AreaPressNew_ClearsSpecial(self, x, y) ==
    Returned([self EXCEPT !.pressed = Some(<<x, y>>), !.special_pressed = None],
             SelectablePressed(self.id, x, y))

\* first arm: a Left press inside while the primary slot is None
AreaPressNew(self, x, y) ==
    Returned([self EXCEPT !.pressed = Some(<<x, y>>)], SelectablePressed(self.id, x, y))

\* AreaPressAgain with a slip: the comparison with the stored point is left
\* out, every press on a held area is a drag
AreaPressAgain_AlwaysDragged(self, x, y) ==
    IF self.pressed = None THEN Panicked(self)
    ELSE Returned(self, SelectableDragged(self.id, x, y))

\* second arm: a Left press inside while the primary slot is taken; the
\* slot is read with unwrap and is not written
AreaPressAgain(self, x, y) ==
    IF self.pressed = None THEN Panicked(self)
    ELSE IF Unwrap(self.pressed) = <<x, y>>
         THEN Returned(self, SelectablePressed(self.id, x, y))
         ELSE Returned(self, SelectableDragged(self.id, x, y))

\* AreaRelease with a slip: the slot is not reset
AreaRelease_KeepsSlot(self, x, y) ==
    Returned(self, SelectableReleased(self.id, x, y))

\* third arm: a Left release inside while the primary slot is taken
AreaRelease(self, x, y) ==
    Returned([self EXCEPT !.pressed = None], SelectableReleased(self.id, x, y))

\* fourth arm: a press of the special button inside while the special slot
\* is None
AreaSpecialPressNew(self, x, y) ==
    Returned([self EXCEPT !.special_pressed = Some(<<x, y>>)],
             SelectableSpecialPressed(self.id, x, y))

\* fifth arm: a press of the special button inside while the special slot
\* is taken
AreaSpecialPressAgain(self, x, y) ==
    IF self.special_pressed = None THEN Panicked(self)
    ELSE IF Unwrap(self.special_pressed) = <<x, y>>
         THEN Returned(self, SelectableSpecialPressed(self.id, x, y))
         ELSE Returned(self, SelectableSpecialDragged(self.id, x, y))

\* AreaSpecialRelease with a slip: the release carries the stored point
AreaSpecialRelease_AtStoredPoint(self, x, y) ==
    Returned([self EXCEPT !.special_pressed = None],
             SelectableSpecialReleased(self.id, Unwrap(self.special_pressed)[1],
                                       Unwrap(self.special_pressed)[2]))

\* AreaSpecialRelease with a slip: the special slot is not reset
AreaSpecialRelease_KeepsSlot(self, x, y) ==
    Returned(self, SelectableSpecialReleased(self.id, x, y))

\* sixth arm: a release of the special button inside while the special slot
\* is taken
AreaSpecialRelease(self, x, y) ==
    Returned([self EXCEPT !.special_pressed = None],
             SelectableSpecialReleased(self.id, x, y))

\* AreaGuard with a slip: the sixth arm does not compare the button
AreaGuard_ReleaseOfAnyButton(g, self, event) ==
    LET x == event.x
        y == event.y
        isPress   == event.kind = "CursorPressed"
        isRelease == event.kind = "CursorReleased"
    IN  CASE g = 1 -> isPress /\ event.button = "Left" /\ self.pressed = None
                         /\ AreaInside(self, x, y)
          [] g = 2 -> isPress /\ event.button = "Left" /\ AreaInside(self, x, y)
          [] g = 3 -> isRelease /\ event.button = "Left" /\ IsSome(self.pressed)
                         /\ AreaInside(self, x, y)
          [] g = 4 -> isPress /\ self.special_pressed = None /\ AreaInside(self, x, y)
                         /\ IsSpecialButton(self, event.button)
          [] g = 5 -> isPress /\ AreaInside(self, x, y)
                         /\ IsSpecialButton(self, event.button)
          [] g = 6 -> isRelease /\ IsSome(self.special_pressed) /\ AreaInside(self, x, y)
                         /\ IsSome(self.special)

\* the pattern and the guard of the g-th arm of the match, as written
AreaGuard(g, self, event) ==
    LET x == event.x
        y == event.y
        isPress   == event.kind = "CursorPressed"
        isRelease == event.kind = "CursorReleased"
    IN  CASE g = 1 -> isPress /\ event.button = "Left" /\ self.pressed = None
                         /\ AreaInside(self, x, y)
          [] g = 2 -> isPress /\ event.button = "Left" /\ AreaInside(self, x, y)
          [] g = 3 -> isRelease /\ event.button = "Left" /\ IsSome(self.pressed)
                         /\ AreaInside(self, x, y)
          [] g = 4 -> isPress /\ self.special_pressed = None /\ AreaInside(self, x, y)
                         /\ IsSpecialButton(self, event.button)
          [] g = 5 -> isPress /\ AreaInside(self, x, y)
                         /\ IsSpecialButton(self, event.button)
          [] g = 6 -> isRelease /\ IsSome(self.special_pressed) /\ AreaInside(self, x, y)
                         /\ IsSpecialButton(self, event.button)

\* the body of the g-th arm of the match
AreaArm(g, self, x, y) ==
    CASE g = 1 -> AreaPressNew(self, x, y)
      [] g = 2 -> AreaPressAgain(self, x, y)
      [] g = 3 -> AreaRelease(self, x, y)
      [] g = 4 -> AreaSpecialPressNew(self, x, y)
      [] g = 5 -> AreaSpecialPressAgain(self, x, y)
      [] g = 6 -> AreaSpecialRelease(self, x, y)

\* the match with its six arms written in another order: the first arm of
\* order whose pattern and guard hold is taken
RECURSIVE AreaClosureInOrder(_, _, _)
AreaClosureInOrder(order, self, event) ==
    IF order = <<>> THEN Returned(self, event)
    ELSE IF AreaGuard(Head(order), self, event)
         THEN AreaArm(Head(order), self, event.x, event.y)
         ELSE AreaClosureInOrder(Tail(order), self, event)

\* AreaClosure with a slip: the press-drag arm of the primary channel
\* stands before its press-new arm
AreaClosure_DragArmFirst(self, event) ==
    AreaClosureInOrder(<<2, 1, 3, 4, 5, 6>>, self, event)

\* AreaClosure with a slip: the arms of the special channel stand before
\* the arms of the primary channel
AreaClosure_SpecialArmsFirst(self, event) ==
    AreaClosureInOrder(<<4, 5, 6, 1, 2, 3>>, self, event)

\* one call of the closure of SelectableArea::process on one event: the
\* arms of the match in the order of the source, the first whose pattern
\* and guard hold is taken
AreaClosure(self, event) ==
    LET x == event.x
        y == event.y
        isPress   == event.kind = "CursorPressed"
        isRelease == event.kind = "CursorReleased"
    IN  IF isPress /\ event.button = "Left" /\ self.pressed = None /\ AreaInside(self, x, y)
        THEN AreaPressNew(self, x, y)
        ELSE IF isPress /\ event.button = "Left" /\ AreaInside(self, x, y)
        THEN AreaPressAgain(self, x, y)
        ELSE IF isRelease /\ event.button = "Left" /\ IsSome(self.pressed)
                /\ AreaInside(self, x, y)
        THEN AreaRelease(self, x, y)
        ELSE IF isPress /\ self.special_pressed = None /\ AreaInside(self, x, y)
                /\ IsSpecialButton(self, event.button)
        THEN AreaSpecialPressNew(self, x, y)
        ELSE IF isPress /\ AreaInside(self, x, y) /\ IsSpecialButton(self, event.button)
        THEN AreaSpecialPressAgain(self, x, y)
        ELSE IF isRelease /\ IsSome(self.special_pressed) /\ AreaInside(self, x, y)
                /\ IsSpecialButton(self, event.button)
        THEN AreaSpecialRelease(self, x, y)
        ELSE Returned(self, event)

\* input.into_iter().filter_map(closure).collect() of
\* SelectableArea::process: the fields after the batch, the events the
\* closure returned, the two slots after each event; a panic ends the walk
RECURSIVE AreaFilterMap(_, _)
AreaFilterMap(self, input) ==
    IF input = <<>> THEN [st |-> self, out |-> <<>>, trace |-> <<>>, panic |-> FALSE]
    ELSE LET r == AreaClosure(self, Head(input))
         IN  IF r.panic
             THEN [st |-> r.st, out |-> <<>>, trace |-> <<>>, panic |-> TRUE]
             ELSE LET rest == AreaFilterMap(r.st, Tail(input))
                  IN  [st    |-> rest.st,
                       out   |-> r.emit \o rest.out,
                       trace |-> <<[pressed |-> r.st.pressed,
                                    special_pressed |-> r.st.special_pressed]>>
                                    \o rest.trace,
                       panic |-> rest.panic]

\* the areas, points and events of the model: the area and the points of
\* the tests, without a special button, with the special button Right of
\* the tests, and with the special button Left
AreaId == 3
Areas ==
    {SelectableAreaNew(AreaId, 40, 40, 20, 20, sp) :
        sp \in {None, Some(SpecialSelect("Right", 0)), Some(SpecialSelect("Left", 0))}}
AreaPoints == {<<50, 50>>, <<50, 51>>, <<10, 50>>}
AreaEvents ==
    {CursorPressed(p[1], p[2], b) : p \in AreaPoints, b \in {"Left", "Right"}}
       \cup {CursorReleased(p[1], p[2], b) : p \in AreaPoints, b \in {"Left", "Right"}}
       \cup {MouseMoved(50, 50)}

AreaInit ==
    /\ area_self \in Areas
    /\ area_call = None

\* the batches a call of SelectableArea::process is given
AreaBatches == SeqsUpTo(AreaEvents, MaxBatch)

\* SelectableArea::process with a slip: a frame of no length is passed on
\* untouched
AreaProcessDt_SkipsEmptyFrame(self, input, dt) ==
    IF dt = 0
    THEN [st |-> self, out |-> input, trace |-> AreaFilterMap(self, input).trace,
          panic |-> FALSE]
    ELSE AreaFilterMap(self, input)

\* the body of SelectableArea::process(input, dt): the filter_map over input
AreaProcessDt(self, input, dt) == AreaFilterMap(self, input)

\* SelectableArea::process(input, dt), for any batch input of batches and any
\* dt of dts
AreaProcessOn(batches, dts) ==
    /\ area_call = None
    /\ \E input \in batches, dt \in dts :
         LET r == AreaProcessDt(area_self, input, dt)
         IN  /\ area_self' = r.st
             /\ area_call' = Some([pre |-> area_self, input |-> input,
                                   output |-> IF r.panic THEN <<>> ELSE r.out,
                                   trace |-> r.trace, panicked |-> r.panic,
                                   dt |-> dt])
    /\ UNCHANGED <<cursor_vars, button_vars, loop_vars, math_vars, pipe_vars>>

AreaProcess == AreaProcessOn(AreaBatches, OneFrame)

\* the caller drops the batch SelectableArea::process returned
AreaDrop ==
    /\ area_call # None
    /\ area_call' = None
    /\ UNCHANGED <<area_self, cursor_vars, button_vars, loop_vars, math_vars, pipe_vars>>

AreaNext ==
    \/ AreaProcess
    \/ AreaDrop

\* a SelectableArea given its events one at a time
AreaStepBatches == SeqsUpTo(AreaEvents, 1)
AreaProcessStep == AreaProcessOn(AreaStepBatches, OneFrame)
AreaStepNext ==
    \/ AreaProcessStep
    \/ AreaDrop

---------------------------------------------------------------------------
(* A Button and a SelectableArea called with any dt *)

TimedButtonEvents ==
    {CursorPressed(50, 50, "Left"), CursorReleased(50, 50, "Left"),
     CursorPressed(10, 50, "Left")}
TimedAreaEvents ==
    {CursorPressed(50, 50, "Left"), CursorReleased(50, 50, "Left"),
     CursorPressed(50, 50, "Right")}
TimedButtonBatches == SeqsUpTo(TimedButtonEvents, MaxBatch)
TimedAreaBatches == SeqsUpTo(TimedAreaEvents, MaxBatch)

\* the two filters run on one thread: a call of one begins once the batch
\* the other returned has been dropped
ButtonProcessTimed ==
    /\ area_call = None
    /\ ButtonProcessOn(TimedButtonBatches, Durations)
AreaProcessTimed ==
    /\ button_call = None
    /\ AreaProcessOn(TimedAreaBatches, Durations)

TimedNext ==
    \/ ButtonProcessTimed
    \/ ButtonDrop
    \/ AreaProcessTimed
    \/ AreaDrop

---------------------------------------------------------------------------
(* Button::inside and SelectableArea::inside, called on their own          *)

\* the rectangles and points inside is called with: the rectangle of the
\* tests, a rectangle of one point and a rectangle whose far edge lies past
\* the end of the i32 range; points on and next to the edges and at the
\* ends of the range
InsideRects ==
    {ButtonNew(ButtonId, 40, 40, 20, 20), ButtonNew(ButtonId, 50, 50, 0, 0),
     ButtonNew(ButtonId, I32Max - 10, 40, 20, 20)}
InsideXs == {I32Min, I32Min + 5, 39, 40, 50, 60, 61, I32Max - 10, I32Max}
InsideYs == {I32Min, 39, 40, 50, 60, 61}

InsideInit ==
    /\ button_self \in InsideRects
    /\ button_call = None
    /\ overflow_checks \in BOOLEAN
    /\ inside_call = None

\* self.inside(x, y): the value it returns, or the panic of a subtraction
\* that overflows in a build that checks overflow
InsideCall ==
    /\ inside_call = None
    /\ \E x \in InsideXs, y \in InsideYs :
         LET panics == overflow_checks /\ InsideOverflows(button_self, x, y)
         IN  inside_call' = Some([self |-> button_self, x |-> x, y |-> y,
                                  panicked |-> panics,
                                  result |-> IF panics THEN None
                                             ELSE Some(Inside(button_self, x, y))])
    /\ UNCHANGED <<button_self, button_call, overflow_checks,
                   cursor_vars, area_vars, loop_vars, math_vars, pipe_vars>>

\* the caller is done with the value
InsideReturn ==
    /\ inside_call # None
    /\ inside_call' = None
    /\ UNCHANGED <<button_self, button_call, overflow_checks,
                   cursor_vars, area_vars, loop_vars, math_vars, pipe_vars>>

InsideNext ==
    \/ InsideCall
    \/ InsideReturn

---------------------------------------------------------------------------
(* GameLoop::run *)

\* GameLoop::new(game): run has not been called
LoopNew ==
    /\ loop_pc = "new"
    /\ loop_clock = 0
    /\ loop_last = None
    /\ loop_samples = <<>>
    /\ loop_calls = <<>>

\* what the clock may have moved by when time::get_time() reads it
Ticks == (-MaxBack)..MaxTick

\* what Game::update may return in the call after n calls
Updates(n) == IF n + 1 < MaxFrames THEN BOOLEAN ELSE {FALSE}

\* LoopStep with a slip: `last = now` is missing
LoopStep_KeepsLast(last, now, go) ==
    [dt   |-> now - last,
     last |-> last,
     pc   |-> IF ~go THEN "returned" ELSE "loop"]

\* LoopStep with a slip: the loop breaks when update returns true
LoopStep_BreaksOnTrue(last, now, go) ==
    [dt   |-> now - last,
     last |-> IF go THEN last ELSE now,
     pc   |-> IF go THEN "returned" ELSE "loop"]

\* the body of the loop once `now` is read and update(now - last) has
\* returned go: the dt update was given, `last` and where control goes
LoopStep(last, now, go) ==
    [dt   |-> now - last,
     last |-> IF ~go THEN last ELSE now,
     pc   |-> IF ~go THEN "returned" ELSE "loop"]

\* let mut last = time::get_time();
RunEnter ==
    /\ loop_pc = "new"
    /\ \E tick \in Ticks :
         /\ loop_clock' = loop_clock + tick
         /\ loop_last' = Some(loop_clock + tick)
         /\ loop_samples' = <<loop_clock + tick>>
    /\ loop_pc' = "loop"
    /\ UNCHANGED <<loop_calls, cursor_vars, button_vars, area_vars, math_vars, pipe_vars>>

\* one iteration of the loop: now = time::get_time(), the call
\* self.game.update(now - last), then break or last = now
RunIterate ==
    /\ loop_pc = "loop"
    /\ Len(loop_calls) < MaxFrames
    /\ \E tick \in Ticks, go \in Updates(Len(loop_calls)) :
         LET now == loop_clock + tick
             r   == LoopStep(Unwrap(loop_last), now, go)
         IN  /\ loop_clock' = now
             /\ loop_samples' = Append(loop_samples, now)
             /\ loop_calls' = Append(loop_calls, [now |-> now, dt |-> r.dt, ret |-> go])
             /\ loop_last' = Some(r.last)
             /\ loop_pc' = r.pc
    /\ UNCHANGED <<cursor_vars, button_vars, area_vars, math_vars, pipe_vars>>

LoopNext ==
    \/ RunEnter
    \/ RunIterate

---------------------------------------------------------------------------
(* f32 *)

\* An f32 is NaN, an infinity, or a finite value kept as the fraction n/d in
\* lowest terms: the values of the model are small fractions that f32 holds
\* exactly or to the last bit, and the rounding of f32 is not modelled.
\* The sign of zero is not kept: a zero is +0.0.
RECURSIVE GCD(_, _)
GCD(a, b) == IF b = 0 THEN a ELSE GCD(b, a % b)
Abs(n) == IF n < 0 THEN -n ELSE n

Frac(n, d) ==
    LET g == GCD(Abs(n), Abs(d))
        sg == IF d < 0 THEN -1 ELSE 1
    IN  [k |-> "fin", n |-> (sg * n) \div g, d |-> (sg * d) \div g]
FInt(i) == [k |-> "fin", n |-> i, d |-> 1]
NaN    == [k |-> "nan", n |-> 0, d |-> 1]
PosInf == [k |-> "inf", n |-> 1, d |-> 1]
NegInf == [k |-> "inf", n |-> -1, d |-> 1]
Zero == FInt(0)
One  == FInt(1)

IsNaN(a)    == a.k = "nan"
IsFinite(a) == a.k = "fin"
Signum(a)   == IF a.n > 0 THEN 1 ELSE IF a.n < 0 THEN -1 ELSE 0
Infinity(sign) == IF sign < 0 THEN NegInf ELSE PosInf

\* -a
FNeg(a) == [a EXCEPT !.n = -a.n]

\* a + b
FAdd(a, b) ==
    IF IsNaN(a) \/ IsNaN(b) THEN NaN
    ELSE IF a.k = "inf" /\ b.k = "inf" THEN (IF a.n = b.n THEN a ELSE NaN)
    ELSE IF a.k = "inf" THEN a
    ELSE IF b.k = "inf" THEN b
    ELSE Frac(a.n * b.d + b.n * a.d, a.d * b.d)

\* a - b
FSub(a, b) == FAdd(a, FNeg(b))

\* a * b
FMul(a, b) ==
    IF IsNaN(a) \/ IsNaN(b) THEN NaN
    ELSE IF a.k = "inf" \/ b.k = "inf"
    THEN (IF a.n = 0 \/ b.n = 0 THEN NaN ELSE Infinity(Signum(a) * Signum(b)))
    ELSE Frac(a.n * b.n, a.d * b.d)

\* a / b
FDiv(a, b) ==
    IF IsNaN(a) \/ IsNaN(b) THEN NaN
    ELSE IF a.k = "inf" /\ b.k = "inf" THEN NaN
    ELSE IF a.k = "inf" THEN Infinity(a.n * (IF b.n < 0 THEN -1 ELSE 1))
    ELSE IF b.k = "inf" THEN Zero
    ELSE IF b.n = 0 THEN (IF a.n = 0 THEN NaN ELSE Infinity(Signum(a)))
    ELSE Frac(a.n * b.d, a.d * b.n)

\* a.recip()
FRecip(a) == FDiv(One, a)

\* a == b and a <= b: both are false when an operand is NaN
FEq(a, b) == ~IsNaN(a) /\ ~IsNaN(b) /\ a = b
FLe(a, b) ==
    /\ ~IsNaN(a) /\ ~IsNaN(b)
    /\ IF a.k = "inf" THEN a.n < 0 \/ a = b
       ELSE IF b.k = "inf" THEN b.n > 0
       ELSE a.n * b.d <= b.n * a.d

\* a.powi(k), for k >= 1
RECURSIVE FPowi(_, _)
FPowi(a, k) == IF k = 1 THEN a ELSE FMul(FPowi(a, k - 1), a)

\* a.sqrt(); the finite values it is given in the model are squares of
\* fractions
ISqrt(n) == CHOOSE r \in 0..n : r * r <= n /\ (r + 1) * (r + 1) > n
FSqrt(a) ==
    IF IsNaN(a) THEN NaN
    ELSE IF a.k = "inf" THEN (IF a.n > 0 THEN a ELSE NaN)
    ELSE IF a.n < 0 THEN NaN
    ELSE Frac(ISqrt(a.n), ISqrt(a.d))

---------------------------------------------------------------------------
(* Matrix *)

\* m[i] of an array kept as a sequence
At(m, i) == m[i + 1]

\* Matrix::ident without the last 1.0 of the diagonal
MatrixIdent_NoLastOne ==
    [i \in 1..16 |-> IF i - 1 \in {0, 5, 10} THEN One ELSE Zero]

\* Matrix::ident()
MatrixIdent ==
    [i \in 1..16 |-> IF i - 1 \in {0, 5, 10, 15} THEN One ELSE Zero]

\* Mul<Matrix> for Matrix: entry 4 * col + row of l * r is
\* l[row] * r[4 col] + l[row + 4] * r[4 col + 1] + l[row + 8] * r[4 col + 2]
\*   + l[row + 12] * r[4 col + 3]
MatrixMul(l, r) ==
    [i \in 1..16 |->
        LET row == (i - 1) % 4
            col == (i - 1) \div 4
        IN  FAdd(FAdd(FAdd(FMul(At(l, row),      At(r, 4 * col)),
                           FMul(At(l, row + 4),  At(r, 4 * col + 1))),
                      FMul(At(l, row + 8),  At(r, 4 * col + 2))),
                 FMul(At(l, row + 12), At(r, 4 * col + 3)))]

\* the derived PartialEq of Matrix: == on every pair of entries
MatrixEq(a, b) == \A i \in 1..16 : FEq(a[i], b[i])

\* the det that Matrix::inv computes
MatrixInvDet(m) ==
    LET
        s0  == FSub(FMul(At(m, 0), At(m, 5)), FMul(At(m, 1), At(m, 4)))
        s1  == FSub(FMul(At(m, 0), At(m, 9)), FMul(At(m, 1), At(m, 8)))
        s2  == FSub(FMul(At(m, 0), At(m, 13)), FMul(At(m, 1), At(m, 12)))
        s3  == FSub(FMul(At(m, 4), At(m, 9)), FMul(At(m, 5), At(m, 8)))
        s4  == FSub(FMul(At(m, 4), At(m, 13)), FMul(At(m, 5), At(m, 12)))
        s5  == FSub(FMul(At(m, 8), At(m, 13)), FMul(At(m, 9), At(m, 12)))
        c5  == FSub(FMul(At(m, 10), At(m, 15)), FMul(At(m, 11), At(m, 14)))
        c4  == FSub(FMul(At(m, 6), At(m, 15)), FMul(At(m, 7), At(m, 14)))
        c3  == FSub(FMul(At(m, 6), At(m, 11)), FMul(At(m, 7), At(m, 10)))
        c2  == FSub(FMul(At(m, 2), At(m, 15)), FMul(At(m, 3), At(m, 14)))
        c1  == FSub(FMul(At(m, 2), At(m, 11)), FMul(At(m, 3), At(m, 10)))
        c0  == FSub(FMul(At(m, 2), At(m, 7)), FMul(At(m, 3), At(m, 6)))
        det == FAdd(FSub(FAdd(FAdd(FSub(FMul(s0, c5), FMul(s1, c4)), FMul(s2, c3)), FMul(s3, c2)), FMul(s4, c1)), FMul(s5, c0))
    IN  det

\* MatrixInvPanics as it would be if inv did not look at det
MatrixInvPanics_Never(m) == FALSE

\* if det == 0.0 { panic!(..) }
MatrixInvPanics(m) == FEq(MatrixInvDet(m), Zero)

\* the Matrix that Matrix::inv returns when it does not panic
MatrixInv(m) ==
    LET
        s0  == FSub(FMul(At(m, 0), At(m, 5)), FMul(At(m, 1), At(m, 4)))
        s1  == FSub(FMul(At(m, 0), At(m, 9)), FMul(At(m, 1), At(m, 8)))
        s2  == FSub(FMul(At(m, 0), At(m, 13)), FMul(At(m, 1), At(m, 12)))
        s3  == FSub(FMul(At(m, 4), At(m, 9)), FMul(At(m, 5), At(m, 8)))
        s4  == FSub(FMul(At(m, 4), At(m, 13)), FMul(At(m, 5), At(m, 12)))
        s5  == FSub(FMul(At(m, 8), At(m, 13)), FMul(At(m, 9), At(m, 12)))
        c5  == FSub(FMul(At(m, 10), At(m, 15)), FMul(At(m, 11), At(m, 14)))
        c4  == FSub(FMul(At(m, 6), At(m, 15)), FMul(At(m, 7), At(m, 14)))
        c3  == FSub(FMul(At(m, 6), At(m, 11)), FMul(At(m, 7), At(m, 10)))
        c2  == FSub(FMul(At(m, 2), At(m, 15)), FMul(At(m, 3), At(m, 14)))
        c1  == FSub(FMul(At(m, 2), At(m, 11)), FMul(At(m, 3), At(m, 10)))
        c0  == FSub(FMul(At(m, 2), At(m, 7)), FMul(At(m, 3), At(m, 6)))
        det == FAdd(FSub(FAdd(FAdd(FSub(FMul(s0, c5), FMul(s1, c4)), FMul(s2, c3)), FMul(s3, c2)), FMul(s4, c1)), FMul(s5, c0))
        inv_det == FRecip(det)
    IN  <<
           FMul(FAdd(FSub(FMul(At(m, 5), c5), FMul(At(m, 9), c4)), FMul(At(m, 13), c3)), inv_det),
           FMul(FSub(FAdd(FMul(FNeg(At(m, 1)), c5), FMul(At(m, 9), c2)), FMul(At(m, 13), c1)), inv_det),
           FMul(FAdd(FSub(FMul(At(m, 1), c4), FMul(At(m, 5), c2)), FMul(At(m, 13), c0)), inv_det),
           FMul(FSub(FAdd(FMul(FNeg(At(m, 1)), c3), FMul(At(m, 5), c1)), FMul(At(m, 9), c0)), inv_det),
           FMul(FSub(FAdd(FMul(FNeg(At(m, 4)), c5), FMul(At(m, 8), c4)), FMul(At(m, 12), c3)), inv_det),
           FMul(FAdd(FSub(FMul(At(m, 0), c5), FMul(At(m, 8), c2)), FMul(At(m, 12), c1)), inv_det),
           FMul(FSub(FAdd(FMul(FNeg(At(m, 0)), c4), FMul(At(m, 4), c2)), FMul(At(m, 12), c0)), inv_det),
           FMul(FAdd(FSub(FMul(At(m, 0), c3), FMul(At(m, 4), c1)), FMul(At(m, 8), c0)), inv_det),
           FMul(FAdd(FSub(FMul(At(m, 7), s5), FMul(At(m, 11), s4)), FMul(At(m, 15), s3)), inv_det),
           FMul(FSub(FAdd(FMul(FNeg(At(m, 3)), s5), FMul(At(m, 11), s2)), FMul(At(m, 15), s1)), inv_det),
           FMul(FAdd(FSub(FMul(At(m, 3), s4), FMul(At(m, 7), s2)), FMul(At(m, 15), s0)), inv_det),
           FMul(FSub(FAdd(FMul(FNeg(At(m, 3)), s3), FMul(At(m, 7), s1)), FMul(At(m, 11), s0)), inv_det),
           FMul(FSub(FAdd(FMul(FNeg(At(m, 6)), s5), FMul(At(m, 10), s4)), FMul(At(m, 14), s3)), inv_det),
           FMul(FAdd(FSub(FMul(At(m, 2), s5), FMul(At(m, 10), s2)), FMul(At(m, 14), s1)), inv_det),
           FMul(FSub(FAdd(FMul(FNeg(At(m, 2)), s4), FMul(At(m, 6), s2)), FMul(At(m, 14), s0)), inv_det),
           FMul(FAdd(FSub(FMul(At(m, 2), s3), FMul(At(m, 6), s1)), FMul(At(m, 10), s0)), inv_det)
        >>

\* the matrices of the model: those of the tests and the examples (ident,
\* all 0.0, all 2.0, a scale by 2, a translation by 1), a reflection, and
\* ident and all 2.0 with one entry replaced by NaN or an infinity
Filled(v) == [i \in 1..16 |-> v]
Diagonal(a, b, c, d) ==
    [i \in 1..16 |-> CASE i = 1 -> a [] i = 6 -> b [] i = 11 -> c [] i = 16 -> d
                       [] OTHER -> Zero]
MatrixBases ==
    {MatrixIdent, Filled(Zero), Filled(FInt(2)),
     Diagonal(FInt(2), FInt(2), FInt(2), One),
     [i \in 1..16 |-> IF i \in {13, 14, 15} THEN One ELSE MatrixIdent[i]],
     Diagonal(FInt(-1), One, One, One),
     Diagonal(Frac(1, 2), FInt(3), One, One)}
Matrices ==
    MatrixBases \cup
    {[b EXCEPT ![i] = v] : b \in {MatrixIdent, Filled(FInt(2))}, i \in 1..16,
                           v \in {NaN, PosInf, NegInf}}

MatrixInit ==
    /\ math_self \in Matrices
    /\ math_call = None

\* self * Matrix::ident() and Matrix::ident() * self
MatrixMulCall ==
    /\ math_call = None
    /\ \E side \in {"left", "right"} :
         LET l == IF side = "left" THEN math_self ELSE MatrixIdent
             r == IF side = "left" THEN MatrixIdent ELSE math_self
         IN  math_call' = Some([op |-> "mul", l |-> l, r |-> r, panicked |-> FALSE,
                                result |-> Some(MatrixMul(l, r))])
    /\ UNCHANGED <<math_self, cursor_vars, button_vars, area_vars, loop_vars, pipe_vars>>

\* self.inv()
MatrixInvCall ==
    /\ math_call = None
    /\ math_call' =
          IF MatrixInvPanics(math_self)
          THEN Some([op |-> "inv", l |-> math_self, r |-> math_self, panicked |-> TRUE,
                     result |-> None])
          ELSE Some([op |-> "inv", l |-> math_self, r |-> math_self, panicked |-> FALSE,
                     result |-> Some(MatrixInv(math_self))])
    /\ UNCHANGED <<math_self, cursor_vars, button_vars, area_vars, loop_vars, pipe_vars>>

\* the caller is done with the value
MathReturn ==
    /\ math_call # None
    /\ math_call' = None
    /\ UNCHANGED <<math_self, cursor_vars, button_vars, area_vars, loop_vars, pipe_vars>>

MatrixNext ==
    \/ MatrixMulCall
    \/ MatrixInvCall
    \/ MathReturn

---------------------------------------------------------------------------
(* Vector, Bezier and BezierPath *)

Vector(x, y, z) == [x |-> x, y |-> y, z |-> z]

\* Add and Sub for Vector, Mul<f32> for Vector
VAdd(a, b) == Vector(FAdd(a.x, b.x), FAdd(a.y, b.y), FAdd(a.z, b.z))
VSub(a, b) == Vector(FSub(a.x, b.x), FSub(a.y, b.y), FSub(a.z, b.z))
VMul(a, scalar) == Vector(FMul(a.x, scalar), FMul(a.y, scalar), FMul(a.z, scalar))

\* Vector::len and Vector::dist
VLen(a) == FSqrt(FAdd(FAdd(FPowi(a.x, 2), FPowi(a.y, 2)), FPowi(a.z, 2)))
VDist(a, b) == VLen(VSub(a, b))

\* Bezier::new_sqr and Bezier::new_cub
BezierNewSqr(v1, v2, v3) == [v1 |-> v1, v2 |-> v2, v3 |-> v3, v4 |-> None]
BezierNewCub(v1, v2, v3, v4) == [v1 |-> v1, v2 |-> v2, v3 |-> v3, v4 |-> Some(v4)]

\* Bezier::interpolate
BezierInterpolate(self, ratio) ==
    LET u == FSub(One, ratio)
    IN  IF IsSome(self.v4)
        THEN VAdd(VAdd(VAdd(VMul(self.v1, FPowi(u, 3)),
                            VMul(VMul(VMul(self.v2, FInt(3)), FPowi(u, 2)), ratio)),
                       VMul(VMul(VMul(self.v3, FInt(3)), u), FPowi(ratio, 2))),
                  VMul(Unwrap(self.v4), FPowi(ratio, 3)))
        ELSE VAdd(VAdd(VMul(self.v1, FPowi(u, 2)),
                       VMul(VMul(VMul(self.v2, FInt(2)), u), ratio)),
                  VMul(self.v3, FPowi(ratio, 2)))

\* Bezier::len: the fold over 1..steps + 1 of (l + v.dist(n), n), begun at
\* (0.0, self.v1), from its i-th step on.  (A NaN stays NaN whatever is
\* added to it; the test of it makes TLC compute each sum before the next
\* step.)
RECURSIVE BezierLenFold(_, _, _, _, _)
BezierLenFold(self, steps, i, l, v) ==
    IF i > steps THEN l
    ELSE LET n    == BezierInterpolate(self, FDiv(FInt(i), FInt(steps)))
             next == FAdd(l, VDist(v, n))
         IN  IF IsNaN(next) THEN NaN
             ELSE BezierLenFold(self, steps, i + 1, next, n)
BezierLen(self, steps) == BezierLenFold(self, steps, 1, Zero, self.v1)

\* const STEPS: i32 = 20 of BezierPath::new
STEPS == 20

\* the fold(0.0, |s, l| s + l) of BezierPath::new
RECURSIVE SumF(_)
SumF(ls) == IF ls = <<>> THEN Zero ELSE FAdd(SumF(SubSeq(ls, 1, Len(ls) - 1)), ls[Len(ls)])

\* BezierPath::new
BezierPathNew(curves) ==
    LET lengths == [i \in 1..Len(curves) |-> BezierLen(curves[i], STEPS)]
        sum == SumF(lengths)
    IN  [curves  |-> curves,
         lengths |-> [i \in 1..Len(curves) |-> FDiv(lengths[i], sum)]]

\* the find of BezierPath::interpolate from the i-th curve on, with the
\* captured sum: the index it stops at (0 when it finds none) and sum
RECURSIVE PathFind(_, _, _, _)
PathFind(self, ratio, i, sum) ==
    IF i > Len(self.curves) THEN [found |-> 0, sum |-> sum]
    ELSE IF FLe(ratio, FAdd(sum, self.lengths[i])) THEN [found |-> i, sum |-> sum]
    ELSE PathFind(self, ratio, i + 1, FAdd(sum, self.lengths[i]))

\* BezierPath::interpolate panics: find returns None and there is no last
\* curve
PathInterpolatePanics(self, ratio) ==
    PathFind(self, ratio, 1, Zero).found = 0 /\ Len(self.curves) = 0

\* the Vector BezierPath::interpolate returns when it does not panic
PathInterpolate(self, ratio) ==
    LET f == PathFind(self, ratio, 1, Zero)
        n == Len(self.curves)
    IN  IF f.found # 0
        THEN BezierInterpolate(self.curves[f.found],
                               FDiv(FSub(ratio, f.sum), self.lengths[f.found]))
        ELSE BezierInterpolate(self.curves[n],
                               FDiv(FAdd(FSub(ratio, f.sum), self.lengths[n]),
                                    self.lengths[n]))

\* the curves, paths and ratios of the model: curves along the x axis
\* (where dist has no rounding), among them the curve of the example of
\* BezierPath::new and a curve whose control points are all the origin
OnAxis(x) == Vector(FInt(x), Zero, Zero)
CurveA == BezierNewSqr(OnAxis(0), OnAxis(1), OnAxis(2))
CurveB == BezierNewSqr(OnAxis(2), OnAxis(6), OnAxis(10))
CurveC == BezierNewCub(OnAxis(0), OnAxis(1), OnAxis(2), OnAxis(3))
CurveO == BezierNewSqr(OnAxis(0), OnAxis(0), OnAxis(0))
CurveLists ==
    {<<>>, <<CurveO>>, <<CurveO, CurveO>>, <<CurveA>>, <<CurveA, CurveB>>, <<CurveC>>,
     <<CurveA, CurveO>>, <<CurveO, CurveA>>, <<CurveC, CurveO, CurveO>>,
     <<CurveA, CurveB, CurveO>>}
Ratios ==
    {Zero, Frac(1, 4), Frac(1, 2), Frac(3, 4), One, Frac(6, 5), FInt(2), Frac(-1, 2),
     NaN, PosInf, NegInf}

BezierInit ==
    /\ math_self \in {BezierPathNew(cs) : cs \in CurveLists}
    /\ math_call = None

\* self.interpolate(ratio)
PathInterpolateCall ==
    /\ math_call = None
    /\ \E ratio \in Ratios :
         math_call' =
            IF PathInterpolatePanics(math_self, ratio)
            THEN Some([op |-> "interpolate", l |-> math_self, r |-> ratio,
                       panicked |-> TRUE, result |-> None])
            ELSE Some([op |-> "interpolate", l |-> math_self, r |-> ratio,
                       panicked |-> FALSE,
                       result |-> Some(PathInterpolate(math_self, ratio))])
    /\ UNCHANGED <<math_self, cursor_vars, button_vars, area_vars, loop_vars, pipe_vars>>

BezierNext ==
    \/ PathInterpolateCall
    \/ MathReturn

---------------------------------------------------------------------------
(* A chain of filters: Cursor -> Button A -> Button B.  In every frame the  *)
(* batch of raw events goes through the Cursor, the batch the Cursor        *)
(* returns goes through Button A, and the batch Button A returns goes       *)
(* through Button B.                                                        *)

\* the two Buttons of the chain, side by side: (50, 50) lies in A alone and
\* (10, 50) in B alone
ButtonA == ButtonNew(1, 40, 40, 20, 20)
ButtonB == ButtonNew(2, 0, 40, 20, 20)

\* the raw mouse events a frame is made of
PipePoints == {<<50, 50>>, <<10, 50>>}
RawMouseEvents ==
    {MouseMoved(p[1], p[2]) : p \in PipePoints}
       \cup {MouseInput(s, b) : s \in {"Pressed", "Released"}, b \in CursorButtons}
RawMouseBatches == SeqsUpTo(RawMouseEvents, MaxBatch)

\* the whole of Cursor::process: the filter_map and the loop after it, the
\* map being visited in the order o
CursorProcessIn(st, input, o) ==
    LET r == CursorFilterMap(st, input)
    IN  [st |-> r.st, out |-> r.out \o CursorSweep(r.st, o)]

\* one frame: button_b.process(button_a.process(cursor.process(raw, dt), dt), dt)
PipelineFrame(cursor, a, b, raw, o) ==
    LET rc == CursorProcessIn(cursor, raw, o)
        ra == ButtonProcessDt(a, rc.out, 16)
        rb == ButtonProcessDt(b, ra.out, 16)
    IN  [cursor |-> rc.st, a |-> ra.st, b |-> rb.st,
         cursor_out |-> rc.out, a_out |-> ra.out, b_out |-> rb.out]

PipeInit ==
    /\ pipe_cursor = CursorNew
    /\ pipe_a = ButtonA
    /\ pipe_b = ButtonB
    /\ pipe_frame = None

\* a frame of the chain, for any batch raw of raw mouse events
PipeProcess ==
    /\ pipe_frame = None
    /\ \E raw \in RawMouseBatches :
         \E o \in IterOrders(CursorFilterMap(pipe_cursor, raw).st.pressed) :
            LET r == PipelineFrame(pipe_cursor, pipe_a, pipe_b, raw, o)
            IN  /\ pipe_cursor' = r.cursor
                /\ pipe_a' = r.a
                /\ pipe_b' = r.b
                /\ pipe_frame' = Some([pre |-> [cursor |-> pipe_cursor, a |-> pipe_a,
                                                b |-> pipe_b],
                                       raw |-> raw, cursor_out |-> r.cursor_out,
                                       a_out |-> r.a_out, b_out |-> r.b_out])
    /\ UNCHANGED <<cursor_vars, button_vars, area_vars, loop_vars, math_vars>>

\* the caller drops the batch the chain returned
PipeDrop ==
    /\ pipe_frame # None
    /\ pipe_frame' = None
    /\ UNCHANGED <<pipe_cursor, pipe_a, pipe_b, cursor_vars, button_vars, area_vars,
                   loop_vars, math_vars>>

PipeNext ==
    \/ PipeProcess
    \/ PipeDrop

---------------------------------------------------------------------------
(* Specifications *)

\* a filter that is constructed and never called
CursorUnused == CursorInit
\* the specifications of the other filters keep to the coordinates of the
\* tests, where no subtraction overflows: the profile is not looked at
ButtonUnused ==
    /\ button_self = ButtonNew(ButtonId, 40, 40, 20, 20)
    /\ button_call = None
    /\ overflow_checks = TRUE
    /\ inside_call = None

AreaUnused ==
    area_self = SelectableAreaNew(AreaId, 40, 40, 20, 20, None) /\ area_call = None

\* a chain that is never fed
PipeUnused == PipeInit

\* a GameLoop that is never run, and no value of math
LoopUnused == LoopNew
MathUnused == math_self = None /\ math_call = None

\* a Cursor on its own
InitCursor == CursorInit /\ ButtonUnused /\ AreaUnused /\ LoopUnused /\ MathUnused /\ PipeUnused
SpecCursor == InitCursor /\ [][CursorNext]_vars

\* a Button on its own
InitButton == ButtonInit /\ CursorUnused /\ AreaUnused /\ LoopUnused /\ MathUnused /\ PipeUnused
SpecButton == InitButton /\ [][ButtonNext]_vars

\* a Button on its own, given events at the ends of the i32 range
SpecButtonWide == InitButton /\ [][ButtonWideNext]_vars

\* a Button given batches of touches of several fingers and of mouse events
SpecButtonTouch == InitButton /\ [][ButtonTouchNext]_vars

\* a SelectableArea on its own
InitArea == AreaInit /\ CursorUnused /\ ButtonUnused /\ LoopUnused /\ MathUnused /\ PipeUnused
SpecArea == InitArea /\ [][AreaNext]_vars

\* a Button and a SelectableArea, called with any dt
InitTimed == ButtonInit /\ AreaInit /\ CursorUnused /\ LoopUnused /\ MathUnused /\ PipeUnused
SpecTimed == InitTimed /\ [][TimedNext]_vars

\* a SelectableArea on its own, given one event at a time
SpecAreaStep == InitArea /\ [][AreaStepNext]_vars

\* inside on its own
InitInside == InsideInit /\ CursorUnused /\ AreaUnused /\ LoopUnused /\ MathUnused /\ PipeUnused
SpecInside == InitInside /\ [][InsideNext]_vars

\* a GameLoop on its own; the thread that runs it is scheduled
InitLoop == LoopNew /\ CursorUnused /\ ButtonUnused /\ AreaUnused /\ MathUnused /\ PipeUnused
SpecLoop == InitLoop /\ [][LoopNext]_vars
SpecLoopFair == SpecLoop /\ WF_vars(LoopNext)

\* a Matrix on its own
InitMatrix == MatrixInit /\ CursorUnused /\ ButtonUnused /\ AreaUnused /\ LoopUnused /\ PipeUnused
SpecMatrix == InitMatrix /\ [][MatrixNext]_vars

\* a BezierPath on its own
InitBezier == BezierInit /\ CursorUnused /\ ButtonUnused /\ AreaUnused /\ LoopUnused /\ PipeUnused
SpecBezier == InitBezier /\ [][BezierNext]_vars

\* a chain of a Cursor and two Buttons on its own
InitPipe == PipeInit /\ CursorUnused /\ ButtonUnused /\ AreaUnused /\ LoopUnused /\ MathUnused
SpecPipe == InitPipe /\ [][PipeNext]_vars

---------------------------------------------------------------------------
(* What a call of Cursor::process is expected to do, stated on the call     *)
(* record: the batch given, the fields before, the batch returned.          *)

CursorCalled == cursor_call # None
CursorCall   == Unwrap(cursor_call)

IsRawMouse(e)    == e.kind \in {"MouseMoved", "MouseInput"}
IsRawRelease(e)  == e.kind = "MouseInput" /\ e.phase = "Released"
IsCursorEvent(e) == e.kind \in {"CursorPressed", "CursorReleased"}

\* the largest element of a non-empty set of numbers
MaxOf(S) == CHOOSE m \in S : \A n \in S : n <= m

\* the position known just before the i-th event of the batch: that of the
\* last move before it, else the position the call began with
PosBefore(c, i) ==
    LET moves == {j \in 1..(i - 1) : c.input[j].kind = "MouseMoved"}
    IN  IF moves = {} THEN c.pre.pos
        ELSE Some(<<c.input[MaxOf(moves)].x, c.input[MaxOf(moves)].y>>)

\* the j-th event of the batch has an event in the output: it is passed
\* through, or it is a release met with a known position
EmitsAt(c, j) ==
    \/ ~IsRawMouse(c.input[j])
    \/ IsRawRelease(c.input[j]) /\ IsSome(PosBefore(c, j))

\* where in the output the event for the i-th event of the batch stands
OutIndex(c, i) == Cardinality({j \in 1..(i - 1) : EmitsAt(c, j)}) + 1

\* the number of output events that answer an event of the batch
NumEmitted(c) == Cardinality({j \in 1..Len(c.input) : EmitsAt(c, j)})

HeldNow == {b \in DOMAIN cursor_pressed : cursor_pressed[b]}

FreshThenClick ==
    /\ CursorCall.pre = CursorNew
    /\ CursorCall.input = <<MouseMoved(50, 50), MouseInput("Pressed", "Left")>>

EmptyBatchAfterClick ==
    /\ CursorCall.pre = [pos |-> Some(<<50, 50>>), pressed |-> [b \in {"Left"} |-> TRUE]]
    /\ CursorCall.input = <<>>

\* C4: end-of-batch sweep.  When the position is known after a call, the
\* output of the call ends with exactly one CursorPressed(x,y,b) for each
\* button b held after the whole batch, (x,y) being the position after the
\* whole batch, and these events stand after every other event of the
\* output.  A fresh Cursor given [MouseMoved(50,50), MouseInput(Pressed,Left)]
\* returns CursorPressed(50,50,Left) in that call and again on a following
\* empty batch.
C4_EndOfBatchSweep ==
    CursorCalled =>
        LET out == CursorCall.output
            k   == Cardinality(HeldNow)
        IN  /\ IsSome(cursor_pos) =>
                /\ Len(out) = NumEmitted(CursorCall) + k
                /\ {out[i] : i \in (Len(out) - k + 1)..Len(out)}
                     = {CursorPressed(Unwrap(cursor_pos)[1], Unwrap(cursor_pos)[2], b) :
                            b \in HeldNow}
            /\ FreshThenClick =>
                /\ Len(out) >= 1
                /\ out[Len(out)] = CursorPressed(50, 50, "Left")
            /\ EmptyBatchAfterClick =>
                /\ Len(out) >= 1
                /\ out[Len(out)] = CursorPressed(50, 50, "Left")

\* a call that returned other events and then the sweep of two held buttons
C4_Witness ==
    /\ CursorCalled
    /\ IsSome(cursor_pos)
    /\ Cardinality(HeldNow) = 2
    /\ NumEmitted(CursorCall) >= 1
    /\ Len(CursorCall.output) = NumEmitted(CursorCall) + 2

\* C5 as stated: a fresh Cursor given [MouseMoved(50,50),
\* MouseInput(Pressed,Left)] returns no event in that call, and a following
\* call with an empty batch returns exactly one CursorPressed(50,50,Left).
C5_DefersPressToNextCall ==
    CursorCalled =>
        /\ FreshThenClick => CursorCall.output = <<>>
        /\ EmptyBatchAfterClick => CursorCall.output = <<CursorPressed(50, 50, "Left")>>

\* C5 as amended: a fresh Cursor given [MouseMoved(50,50),
\* MouseInput(Pressed,Left)] returns exactly one CursorPressed(50,50,Left) in
\* that same call, and a following call with an empty batch returns exactly
\* one CursorPressed(50,50,Left) again.
C5_PressReportedInSameCall ==
    CursorCalled =>
        /\ FreshThenClick => CursorCall.output = <<CursorPressed(50, 50, "Left")>>
        /\ EmptyBatchAfterClick => CursorCall.output = <<CursorPressed(50, 50, "Left")>>

\* the empty batch given right after the click of a fresh Cursor
C5_Witness ==
    /\ CursorCalled
    /\ EmptyBatchAfterClick
    /\ CursorCall.output = <<CursorPressed(50, 50, "Left")>>

\* C6: while the position is unknown (no MouseMoved was ever processed), a
\* call returns no CursorPressed or CursorReleased of its own making: its
\* output is the events it passes through, and it is empty for a batch of
\* raw button presses and releases.
C6_NoCursorEventWithoutPosition ==
    (CursorCalled /\ cursor_pos = None) =>
        LET Passed(e) == ~IsRawMouse(e)
            IsMouseInput(e) == e.kind = "MouseInput"
        IN  /\ CursorCall.output = SelectSeq(CursorCall.input, Passed)
            /\ (SelectSeq(CursorCall.input, IsMouseInput) = CursorCall.input)
                  => CursorCall.output = <<>>

\* position unknown, a button held and another released in one batch
C6_Witness ==
    /\ CursorCalled
    /\ cursor_pos = None
    /\ HeldNow # {}
    /\ \E i \in 1..Len(CursorCall.input) : IsRawRelease(CursorCall.input[i])
    /\ CursorCall.output = <<>>

\* C7: a raw MouseInput(Released, b) clears the held flag of b (it is false
\* after the call unless a later press of b follows in the batch) and, when
\* a position is known at that point, CursorReleased(x,y,b) stands in the
\* output where the raw event stood; the raw event is not in the output.
\* This is so also when b was never pressed: a fresh Cursor given
\* [MouseMoved(50,50), MouseInput(Released,Left)] returns
\* CursorReleased(50,50,Left) as its first event.
C7_ReleaseReported ==
    CursorCalled =>
        LET c == CursorCall
        IN  /\ \A i \in 1..Len(c.input) :
                  IsRawRelease(c.input[i]) =>
                    LET b == c.input[i].button
                        p == PosBefore(c, i)
                    IN  /\ (\A j \in (i + 1)..Len(c.input) :
                                c.input[j] # MouseInput("Pressed", b))
                              => (b \in DOMAIN cursor_pressed /\ ~cursor_pressed[b])
                        /\ IsSome(p) =>
                              /\ OutIndex(c, i) <= Len(c.output)
                              /\ c.output[OutIndex(c, i)]
                                    = CursorReleased(Unwrap(p)[1], Unwrap(p)[2], b)
                        /\ \A j \in 1..Len(c.output) : c.output[j] # c.input[i]
            /\ (c.pre = CursorNew
                  /\ c.input = <<MouseMoved(50, 50), MouseInput("Released", "Left")>>)
                  => (Len(c.output) >= 1 /\ c.output[1] = CursorReleased(50, 50, "Left"))

\* a release of a button that has never been pressed, position known
C7_Witness ==
    /\ CursorCalled
    /\ CursorCall.pre = CursorNew
    /\ CursorCall.input = <<MouseMoved(50, 50), MouseInput("Released", "Left")>>
    /\ CursorCall.output = <<CursorReleased(50, 50, "Left")>>
    /\ cursor_pressed = [b \in {"Left"} |-> FALSE]

\* C8: every event of the batch that is no raw pointer-move and no raw
\* pointer-button event is in the output unchanged, exactly once, and these
\* events keep their order; they do not change the Cursor's fields.
C8_PassThrough ==
    CursorCalled =>
        LET c == CursorCall
            Passed(e) == ~IsRawMouse(e)
            NotCursorEvent(e) == ~IsCursorEvent(e)
            PassedOther(e) == ~IsRawMouse(e) /\ ~IsCursorEvent(e)
        IN  /\ \A i \in 1..Len(c.input) :
                  Passed(c.input[i]) =>
                     /\ OutIndex(c, i) <= Len(c.output)
                     /\ c.output[OutIndex(c, i)] = c.input[i]
            /\ SelectSeq(c.output, NotCursorEvent) = SelectSeq(c.input, PassedOther)
            /\ Len(c.output) = NumEmitted(c)
                                  + (IF IsSome(cursor_pos) THEN Cardinality(HeldNow) ELSE 0)
            /\ (SelectSeq(c.input, Passed) = c.input)
                  => (cursor_pos = c.pre.pos /\ cursor_pressed = c.pre.pressed)

\* two different events passed through, a consumed event between them
C8_Witness ==
    /\ CursorCalled
    /\ CursorCall.input = <<Touch("Started", 100, 100, 0), MouseMoved(50, 50), ButtonPressed(3)>>
    /\ CursorCall.output = <<Touch("Started", 100, 100, 0), ButtonPressed(3)>>

\* C9: the output never holds a raw MouseMoved or MouseInput; after a batch
\* with a MouseMoved the position is that of its last MouseMoved; a batch of
\* MouseMoved events alone, on a Cursor with no held button, returns nothing.
C9_RawPointerConsumed ==
    CursorCalled =>
        LET c == CursorCall
            IsMove(e) == e.kind = "MouseMoved"
        IN  /\ \A j \in 1..Len(c.output) : ~IsRawMouse(c.output[j])
            /\ cursor_pos = PosBefore(c, Len(c.input) + 1)
            /\ (SelectSeq(c.input, IsMove) = c.input
                  /\ \A b \in DOMAIN c.pre.pressed : ~c.pre.pressed[b])
                  => c.output = <<>>

\* moves alone, no button held: the position follows, nothing is returned
C9_Witness ==
    /\ CursorCalled
    /\ CursorCall.input = <<MouseMoved(50, 50), MouseMoved(10, 50)>>
    /\ CursorCall.pre.pos = None
    /\ CursorCall.pre.pressed = [b \in {"Left"} |-> FALSE]
    /\ cursor_pos = Some(<<10, 50>>)
    /\ CursorCall.output = <<>>

---------------------------------------------------------------------------
(* What a call of Button::process is expected to do *)

ButtonCalled == button_call # None
ButtonCall   == Unwrap(button_call)

\* the point (x,y) lies in the rectangle of the Button b, edges included
InRect(b, x, y) ==
    /\ b.x <= x /\ x <= b.x + b.width
    /\ b.y <= y /\ y <= b.y + b.height

\* the Button is Pressed just before, just after the i-th event of the batch
PressedBefore(c, i) == IF i = 1 THEN c.pre.pressed ELSE c.trace[i - 1]
PressedAfter(c, i)  == c.trace[i]

IsLeftPress(e)   == e.kind = "CursorPressed" /\ e.button = "Left"
IsLeftRelease(e) == e.kind = "CursorReleased" /\ e.button = "Left"

\* C1: press/release round trip.  A Released Button given the batch
\* [CursorPressed(x,y,Left)] with (x,y) in its rectangle returns exactly
\* [ButtonPressed(id)] and is Pressed; a Pressed Button given the batch
\* [CursorReleased(x,y,Left)] with (x,y) in its rectangle returns exactly
\* [ButtonReleased(id)] and is Released again.
C1_PressReleaseRoundTrip ==
    (ButtonCalled /\ Len(ButtonCall.input) = 1) =>
        LET c == ButtonCall
            e == c.input[1]
        IN  /\ (~c.pre.pressed /\ IsLeftPress(e) /\ InRect(c.pre, e.x, e.y))
                  => (c.output = <<ButtonPressed(c.pre.id)>> /\ button_self.pressed)
            /\ (c.pre.pressed /\ IsLeftRelease(e) /\ InRect(c.pre, e.x, e.y))
                  => (c.output = <<ButtonReleased(c.pre.id)>> /\ ~button_self.pressed)

\* the release that closes the round trip, on the far corner of a Button of
\* one point
C1_Witness ==
    /\ ButtonCalled
    /\ ButtonCall.pre = [ButtonNew(ButtonId, 50, 50, 0, 0) EXCEPT !.pressed = TRUE]
    /\ ButtonCall.input = <<CursorReleased(50, 50, "Left")>>
    /\ ButtonCall.output = <<ButtonReleased(ButtonId)>>
    /\ ~button_self.pressed

\* C2: cancel on drag-off.  A CursorReleased(x,y,Left) met while the Button
\* is Pressed gives ButtonCanceled(id) when (x,y) is outside the rectangle
\* and ButtonReleased(id) when it is inside, and leaves the Button Released.
C2_CancelOnDragOff ==
    ButtonCalled =>
        LET c == ButtonCall
        IN  \A i \in 1..Len(c.input) :
              (PressedBefore(c, i) /\ IsLeftRelease(c.input[i])) =>
                 /\ Len(c.output) = Len(c.input)
                 /\ c.output[i] = IF InRect(c.pre, c.input[i].x, c.input[i].y)
                                  THEN ButtonReleased(c.pre.id)
                                  ELSE ButtonCanceled(c.pre.id)
                 /\ ~PressedAfter(c, i)

\* a press inside and a release outside, in one batch
C2_Witness ==
    /\ ButtonCalled
    /\ ButtonCall.input = <<CursorPressed(50, 50, "Left"), CursorReleased(10, 50, "Left")>>
    /\ ButtonCall.output = <<ButtonPressed(ButtonId), ButtonCanceled(ButtonId)>>
    /\ ~button_self.pressed

\* C3: idempotent echo.  Every CursorPressed(x,y,Left) met while the Button
\* is Pressed, inside the rectangle or outside, gives exactly one
\* ButtonPressed(id) in the output and leaves the Button Pressed, for any
\* number of such events in a batch and over any number of batches.
C3_IdempotentEcho ==
    ButtonCalled =>
        LET c == ButtonCall
        IN  \A i \in 1..Len(c.input) :
              (PressedBefore(c, i) /\ IsLeftPress(c.input[i])) =>
                 /\ Len(c.output) = Len(c.input)
                 /\ c.output[i] = ButtonPressed(c.pre.id)
                 /\ PressedAfter(c, i)

\* a Pressed Button given presses inside and outside its rectangle
C3_Witness ==
    /\ ButtonCalled
    /\ ButtonCall.pre.pressed
    /\ ButtonCall.input = <<CursorPressed(10, 50, "Left"), CursorPressed(50, 51, "Left"),
                            CursorPressed(10, 50, "Left")>>
    /\ ButtonCall.output = <<ButtonPressed(ButtonId), ButtonPressed(ButtonId),
                             ButtonPressed(ButtonId)>>
    /\ button_self.pressed

---------------------------------------------------------------------------
(* What a call of SelectableArea::process is expected to do *)

AreaCalled == area_call # None
AreaCall   == Unwrap(area_call)

\* the primary slot just before, just after the i-th event of the batch
SlotBefore(c, i) == IF i = 1 THEN c.pre.pressed ELSE c.trace[i - 1].pressed
SlotAfter(c, i)  == c.trace[i].pressed

\* C10: drag against re-press.  With the primary slot None, a
\* CursorPressed(x,y,Left) inside the rectangle sets the slot to (x,y) and
\* gives SelectablePressed(id,x,y); with the slot Some(old), it gives
\* SelectablePressed(id,x,y) when (x,y) = old and SelectableDragged(id,x,y)
\* when it differs.
C10_DragVersusRePress ==
    (AreaCalled /\ ~AreaCall.panicked) =>
        LET c == AreaCall
        IN  \A i \in 1..Len(c.input) :
              LET e == c.input[i]
              IN  (IsLeftPress(e) /\ InRect(c.pre, e.x, e.y)) =>
                     /\ Len(c.output) = Len(c.input)
                     /\ SlotBefore(c, i) = None =>
                           /\ SlotAfter(c, i) = Some(<<e.x, e.y>>)
                           /\ c.output[i] = SelectablePressed(c.pre.id, e.x, e.y)
                     /\ IsSome(SlotBefore(c, i)) =>
                           c.output[i] = IF Unwrap(SlotBefore(c, i)) = <<e.x, e.y>>
                                         THEN SelectablePressed(c.pre.id, e.x, e.y)
                                         ELSE SelectableDragged(c.pre.id, e.x, e.y)

\* a press, the same press again and a press one step further, as in the
\* test click_dragged
C10_Witness ==
    /\ AreaCalled
    /\ AreaCall.pre.pressed = None
    /\ AreaCall.input = <<CursorPressed(50, 50, "Left"), CursorPressed(50, 50, "Left"),
                          CursorPressed(50, 51, "Left")>>
    /\ AreaCall.output = <<SelectablePressed(AreaId, 50, 50), SelectablePressed(AreaId, 50, 50),
                           SelectableDragged(AreaId, 50, 51)>>

\* the special slot just before, just after the i-th event of the batch
SpecialBefore(c, i) ==
    IF i = 1 THEN c.pre.special_pressed ELSE c.trace[i - 1].special_pressed
SpecialAfter(c, i)  == c.trace[i].special_pressed

IsCursorPress(e)   == e.kind = "CursorPressed"
IsCursorRelease(e) == e.kind = "CursorReleased"

\* C11: on a drag the stored point is updated.  With the primary slot
\* Some(old), an inside CursorPressed(x,y,Left) with (x,y) # old gives
\* SelectableDragged(id,x,y) and the slot becomes Some((x,y)), so that the
\* same press right after it gives SelectablePressed(id,x,y).
C11_DragUpdatesStoredPoint ==
    (AreaCalled /\ ~AreaCall.panicked) =>
        LET c == AreaCall
        IN  \A i \in 1..Len(c.input) :
              LET e == c.input[i]
              IN  (/\ IsLeftPress(e) /\ InRect(c.pre, e.x, e.y)
                   /\ IsSome(SlotBefore(c, i))
                   /\ Unwrap(SlotBefore(c, i)) # <<e.x, e.y>>) =>
                     /\ c.output[i] = SelectableDragged(c.pre.id, e.x, e.y)
                     /\ SlotAfter(c, i) = Some(<<e.x, e.y>>)
                     /\ (i < Len(c.input) /\ c.input[i + 1] = e)
                           => c.output[i + 1] = SelectablePressed(c.pre.id, e.x, e.y)

\* C12: with the primary slot Some(_), a CursorReleased(x,y,Left) inside
\* the rectangle gives SelectableReleased(id,x,y) with the coordinates of
\* the release and resets the slot to None; the next inside
\* CursorPressed(Left) gives SelectablePressed and takes the slot again.
C12_ReleaseEndsGesture ==
    (AreaCalled /\ ~AreaCall.panicked) =>
        LET c == AreaCall
            InsidePress(j) ==
                IsLeftPress(c.input[j]) /\ InRect(c.pre, c.input[j].x, c.input[j].y)
        IN  \A i \in 1..Len(c.input) :
              LET e == c.input[i]
              IN  (IsLeftRelease(e) /\ InRect(c.pre, e.x, e.y) /\ IsSome(SlotBefore(c, i))) =>
                     /\ c.output[i] = SelectableReleased(c.pre.id, e.x, e.y)
                     /\ SlotAfter(c, i) = None
                     /\ \A j \in (i + 1)..Len(c.input) :
                           (InsidePress(j) /\ \A k \in (i + 1)..(j - 1) : ~InsidePress(k)) =>
                              /\ c.output[j] = SelectablePressed(c.pre.id, c.input[j].x,
                                                                 c.input[j].y)
                              /\ SlotAfter(c, j) = Some(<<c.input[j].x, c.input[j].y>>)

\* a gesture ended at another point than it began, and a new one begun
C12_Witness ==
    /\ AreaCalled
    /\ AreaCall.pre.pressed = Some(<<50, 50>>)
    /\ AreaCall.input = <<CursorReleased(50, 51, "Left"), CursorPressed(10, 50, "Left"),
                          CursorPressed(50, 51, "Left")>>
    /\ AreaCall.output = <<SelectableReleased(AreaId, 50, 51), CursorPressed(10, 50, "Left"),
                           SelectablePressed(AreaId, 50, 51)>>
    /\ area_self.pressed = Some(<<50, 51>>)

\* the area has a special button, and it is not Left
HasOtherSpecial(a) == IsSome(a.special) /\ Unwrap(a.special).button # "Left"

\* C13: independent channels.  For an area whose special button is not
\* Left, no event of the special button changes the primary slot and no
\* Left event changes the special slot; a special press inside is taken
\* (SelectableSpecialPressed) whether the primary slot is None or Some, and
\* a Left press inside is taken whether the special slot is None or Some.
C13_IndependentChannels ==
    (AreaCalled /\ HasOtherSpecial(AreaCall.pre)) =>
        LET c == AreaCall
            B == Unwrap(c.pre.special).button
        IN  /\ ~c.panicked
            /\ \A i \in 1..Len(c.input) :
                 LET e == c.input[i]
                 IN  /\ (IsCursorEvent(e) /\ e.button = B)
                           => SlotAfter(c, i) = SlotBefore(c, i)
                     /\ (IsCursorEvent(e) /\ e.button = "Left")
                           => SpecialAfter(c, i) = SpecialBefore(c, i)
                     /\ (/\ IsCursorPress(e) /\ e.button = B /\ InRect(c.pre, e.x, e.y)
                         /\ SpecialBefore(c, i) = None) =>
                           /\ c.output[i] = SelectableSpecialPressed(c.pre.id, e.x, e.y)
                           /\ SpecialAfter(c, i) = Some(<<e.x, e.y>>)
                     /\ (/\ IsLeftPress(e) /\ InRect(c.pre, e.x, e.y)
                         /\ SlotBefore(c, i) = None) =>
                           /\ c.output[i] = SelectablePressed(c.pre.id, e.x, e.y)
                           /\ SlotAfter(c, i) = Some(<<e.x, e.y>>)

\* a special press taken while the primary slot is Some, and a Left press
\* taken while the special slot is Some
C13_Witness ==
    /\ AreaCalled
    /\ HasOtherSpecial(AreaCall.pre)
    /\ AreaCall.pre.pressed = Some(<<50, 50>>)
    /\ AreaCall.pre.special_pressed = None
    /\ AreaCall.input = <<CursorPressed(50, 51, "Right"), CursorReleased(50, 50, "Left"),
                          CursorPressed(50, 51, "Left")>>
    /\ AreaCall.output = <<SelectableSpecialPressed(AreaId, 50, 51),
                           SelectableReleased(AreaId, 50, 50),
                           SelectablePressed(AreaId, 50, 51)>>
    /\ area_self.pressed = Some(<<50, 51>>)
    /\ area_self.special_pressed = Some(<<50, 51>>)

\* the event of the primary channel that stands for e of the special
\* channel, and back
AsLeft(e) == [e EXCEPT !.button = "Left"]
AsSpecial(e, B) ==
    CASE e.kind = "SelectablePressed"  -> SelectableSpecialPressed(e.id, e.x, e.y)
      [] e.kind = "SelectableDragged"  -> SelectableSpecialDragged(e.id, e.x, e.y)
      [] e.kind = "SelectableReleased" -> SelectableSpecialReleased(e.id, e.x, e.y)
      [] IsCursorEvent(e)              -> [e EXCEPT !.button = B]
      [] OTHER                         -> e

\* C14: the special channel mirrors the primary channel.  For an area whose
\* special button B is not Left, a batch of CursorPressed/CursorReleased
\* events of B gives the outputs and the special slots that the same batch
\* with Left gives on the primary channel begun at the same slot, with
\* SelectablePressed/Dragged/Released replaced by
\* SelectableSpecialPressed/Dragged/Released.
C14_SpecialMirrorsPrimary ==
    (AreaCalled /\ HasOtherSpecial(AreaCall.pre)) =>
        LET c == AreaCall
            B == Unwrap(c.pre.special).button
            n == Len(c.input)
            left == [i \in 1..n |-> AsLeft(c.input[i])]
            m == AreaFilterMap([c.pre EXCEPT !.pressed = c.pre.special_pressed], left)
        IN  (\A i \in 1..n : IsCursorEvent(c.input[i]) /\ c.input[i].button = B) =>
               /\ ~c.panicked /\ ~m.panic
               /\ c.output = [i \in 1..n |-> AsSpecial(m.out[i], B)]
               /\ \A i \in 1..n : c.trace[i].special_pressed = m.trace[i].pressed
               /\ area_self.pressed = c.pre.pressed

\* press, drag and release with Right, as in the test click_special_dragged
C14_Witness ==
    /\ AreaCalled
    /\ HasOtherSpecial(AreaCall.pre)
    /\ AreaCall.input = <<CursorPressed(50, 50, "Right"), CursorPressed(50, 51, "Right"),
                          CursorReleased(50, 51, "Right")>>
    /\ AreaCall.output = <<SelectableSpecialPressed(AreaId, 50, 50),
                           SelectableSpecialDragged(AreaId, 50, 51),
                           SelectableSpecialReleased(AreaId, 50, 51)>>
    /\ area_self.special_pressed = None

---------------------------------------------------------------------------
(* Claims about Button::process: the pressed flag, panics, touches and the
   events no arm matches *)

IsTouch(e, phase) == e.kind = "Touch" /\ e.phase = phase

\* the touch location of e, cut to integers, lies in the rectangle of b
TouchInRect(b, e) == InRect(b, AsI32(e.x), AsI32(e.y))

\* "a press inside was observed and no release or cancel since", after the
\* event e, when it was o before
ObservedStep(o, b, e) ==
    IF (IsLeftPress(e) /\ InRect(b, e.x, e.y)) \/ (IsTouch(e, "Started") /\ TouchInRect(b, e))
    THEN TRUE
    ELSE IF IsLeftRelease(e) \/ IsTouch(e, "Ended") \/ IsTouch(e, "Cancelled")
    THEN FALSE
    ELSE o

\* the same after the whole batch of the call c, which began on a Button
\* that was not pressed
Observed(c) ==
    LET f[i \in 0..Len(c.input)] ==
            IF i = 0 THEN FALSE ELSE ObservedStep(f[i - 1], c.pre, c.input[i])
    IN  f[Len(c.input)]

\* C15: Button state invariant.  The pressed flag is true if and only if a
\* CursorPressed(Left) inside the rectangle or a touch Started inside the
\* rectangle was observed and no CursorReleased(Left), touch Ended or touch
\* Cancelled has been processed since.  (A Button that is not pressed has
\* no such press pending, so the calls that begin there are judged from
\* their own batch.)
C15_PressedIffObserved ==
    (ButtonCalled /\ ~ButtonCall.panicked /\ ~ButtonCall.pre.pressed) =>
        (button_self.pressed <=> Observed(ButtonCall))

\* C16: totality of the filters.  In every reachable state and for every
\* input batch, process returns an output batch and never panics; here for
\* Button::process.
C16_ButtonNeverPanics ==
    ButtonCalled => ~ButtonCall.panicked

\* C17: touch Started on a Button.  A Pressed Button emits ButtonPressed(id)
\* wherever the touch is; a Released one becomes Pressed and emits
\* ButtonPressed(id) if the location, cut to integers, is inside the
\* rectangle, and otherwise passes the touch event on and stays Released.
C17_TouchStarted ==
    (ButtonCalled /\ ~ButtonCall.panicked) =>
        LET c == ButtonCall
        IN  \A i \in 1..Len(c.input) :
              LET e == c.input[i]
              IN  IsTouch(e, "Started") =>
                    IF PressedBefore(c, i) \/ TouchInRect(c.pre, e)
                    THEN c.output[i] = ButtonPressed(c.pre.id) /\ PressedAfter(c, i)
                    ELSE c.output[i] = e /\ ~PressedAfter(c, i)

\* a touch outside passed on, a touch inside taken, a touch outside echoed
C17_Witness ==
    /\ ButtonCalled
    /\ ~ButtonCall.pre.pressed
    /\ ButtonCall.input = <<Touch("Started", 79, 100, 0), Touch("Started", 101, 101, 0),
                            Touch("Started", 79, 100, 0)>>
    /\ ButtonCall.output = <<Touch("Started", 79, 100, 0), ButtonPressed(ButtonId),
                             ButtonPressed(ButtonId)>>
    /\ button_self.pressed

\* C18: touch Ended on a Button.  A Pressed Button becomes Released and
\* emits ButtonReleased(id) if the end location is inside the rectangle and
\* ButtonCanceled(id) if it is outside; a Released Button passes the touch
\* event on and stays Released.
C18_TouchEnded ==
    (ButtonCalled /\ ~ButtonCall.panicked) =>
        LET c == ButtonCall
        IN  \A i \in 1..Len(c.input) :
              LET e == c.input[i]
              IN  IsTouch(e, "Ended") =>
                    /\ ~PressedAfter(c, i)
                    /\ c.output[i] =
                          IF ~PressedBefore(c, i) THEN e
                          ELSE IF TouchInRect(c.pre, e) THEN ButtonReleased(c.pre.id)
                          ELSE ButtonCanceled(c.pre.id)

\* an end passed on, a touch taken, and its end outside the rectangle
C18_Witness ==
    /\ ButtonCalled
    /\ ~ButtonCall.pre.pressed
    /\ ButtonCall.input = <<Touch("Ended", 101, 101, 0), Touch("Started", 101, 101, 0),
                            Touch("Ended", 79, 100, 0)>>
    /\ ButtonCall.output = <<Touch("Ended", 101, 101, 0), ButtonPressed(ButtonId),
                             ButtonCanceled(ButtonId)>>
    /\ ~button_self.pressed

\* C19: touch Cancelled.  A Pressed Button emits ButtonCanceled(id) and
\* stays Pressed, so the next touch Started, wherever it is, emits
\* ButtonPressed(id) if no release came in between; a Released Button
\* passes the Cancelled event on and stays Released.
C19_TouchCancelledKeepsFlag ==
    (ButtonCalled /\ ~ButtonCall.panicked) =>
        LET c == ButtonCall
            Ends(k) == IsLeftRelease(c.input[k]) \/ IsTouch(c.input[k], "Ended")
        IN  \A i \in 1..Len(c.input) :
              LET e == c.input[i]
              IN  IsTouch(e, "Cancelled") =>
                    IF PressedBefore(c, i)
                    THEN /\ c.output[i] = ButtonCanceled(c.pre.id)
                         /\ PressedAfter(c, i)
                         /\ \A j \in (i + 1)..Len(c.input) :
                               (/\ IsTouch(c.input[j], "Started")
                                /\ \A k \in (i + 1)..(j - 1) : ~Ends(k))
                                  => c.output[j] = ButtonPressed(c.pre.id)
                    ELSE c.output[i] = e /\ ~PressedAfter(c, i)

\* a touch taken and cancelled, and a touch outside the rectangle after it
C19_Witness ==
    /\ ButtonCalled
    /\ ~ButtonCall.pre.pressed
    /\ ButtonCall.input = <<Touch("Started", 101, 101, 0), Touch("Cancelled", 101, 101, 0),
                            Touch("Started", 79, 100, 0)>>
    /\ ButtonCall.output = <<ButtonPressed(ButtonId), ButtonCanceled(ButtonId),
                             ButtonPressed(ButtonId)>>
    /\ button_self.pressed

\* the event e matches no transition of a Button b whose flag is pressed
NoTransition(b, pressed, e) ==
    \/ IsLeftPress(e) /\ ~InRect(b, e.x, e.y) /\ ~pressed
    \/ IsLeftRelease(e) /\ ~pressed
    \/ IsCursorEvent(e) /\ e.button # "Left"
    \/ e.kind \notin {"CursorPressed", "CursorReleased", "Touch"}

\* C20: a Released Button passes a CursorPressed(x,y,Left) outside the
\* rectangle on unchanged and stays Released; every event that matches no
\* transition (cursor events of other buttons, CursorReleased(Left) while
\* Released, other intermediate events, raw events that are no touch) is
\* passed on unchanged at its place in the batch and leaves the flag as it
\* was.
C20_NoTransitionPassThrough ==
    (ButtonCalled /\ ~ButtonCall.panicked) =>
        LET c == ButtonCall
        IN  /\ Len(c.output) = Len(c.input)
            /\ \A i \in 1..Len(c.input) :
                 NoTransition(c.pre, PressedBefore(c, i), c.input[i]) =>
                    /\ c.output[i] = c.input[i]
                    /\ PressedAfter(c, i) = PressedBefore(c, i)

\* a click outside the rectangle and a press of another button inside it
C20_Witness ==
    /\ ButtonCalled
    /\ ~ButtonCall.pre.pressed
    /\ ButtonCall.input = <<CursorPressed(10, 50, "Left"), CursorReleased(10, 50, "Left"),
                            CursorPressed(50, 50, "Right")>>
    /\ ButtonCall.output = ButtonCall.input
    /\ ~button_self.pressed

---------------------------------------------------------------------------
(* Claims about SelectableArea::process: the events no arm takes *)

\* C21: SelectableArea pass-through.  A CursorPressed or CursorReleased
\* outside the rectangle, a CursorReleased while the slot of its button is
\* None, and every event of a button that is neither Left nor the special
\* button, is passed on unchanged and leaves both slots as they were.
C21_AreaPassThrough ==
    (AreaCalled /\ ~AreaCall.panicked) =>
        LET c == AreaCall
        IN  \A i \in 1..Len(c.input) :
              LET e == c.input[i]
                  special == IsSome(c.pre.special) /\ Unwrap(c.pre.special).button = e.button
              IN  (/\ IsCursorEvent(e)
                   /\ \/ ~InRect(c.pre, e.x, e.y)
                      \/ /\ IsCursorRelease(e)
                         /\ e.button = "Left" => SlotBefore(c, i) = None
                         /\ special => SpecialBefore(c, i) = None
                      \/ e.button # "Left" /\ ~special) =>
                     /\ c.output[i] = e
                     /\ SlotAfter(c, i) = SlotBefore(c, i)
                     /\ SpecialAfter(c, i) = SpecialBefore(c, i)

\* a press outside, a release with nothing held and a press of a button
\* that is not configured, all inside one call
C21_Witness ==
    /\ AreaCalled
    /\ AreaCall.pre.special = Some(SpecialSelect("Left", 0))
    /\ AreaCall.pre.pressed = None
    /\ AreaCall.input = <<CursorPressed(10, 50, "Left"), CursorReleased(50, 50, "Left"),
                          CursorPressed(50, 50, "Right")>>
    /\ AreaCall.output = AreaCall.input
    /\ area_self.pressed = None /\ area_self.special_pressed = None

---------------------------------------------------------------------------
(* Claims about inside *)

\* 0 <= v - lo <= width over the integers, computed within i32
Within(v, lo, width) == v >= lo /\ ~SubOverflows(v, lo) /\ v - lo <= width

\* C22: rectangle containment.  inside(x, y) is true exactly when
\* 0 <= x - rect.x <= width and 0 <= y - rect.y <= height, both edges
\* included, for every integer point.
C22_InsideIffInRectangle ==
    inside_call # None =>
        LET c == Unwrap(inside_call)
        IN  /\ ~c.panicked
            /\ Unwrap(c.result) <=> (/\ Within(c.x, c.self.x, c.self.width)
                                     /\ Within(c.y, c.self.y, c.self.height))

---------------------------------------------------------------------------
(* Claims about GameLoop::run *)

RunReturned == loop_pc = "returned"

\* every call of update but the last returned true; run has returned only
\* after a call that returned false, and it is still in the loop only if
\* no call returned false; one call was made for each reading of the clock
\* inside the loop
C23_CallsUntilFalse ==
    LET n == Len(loop_calls)
    IN  /\ \A i \in 1..(n - 1) : loop_calls[i].ret
        /\ RunReturned => n >= 1 /\ ~loop_calls[n].ret
        /\ loop_pc = "loop" => \A i \in 1..n : loop_calls[i].ret
        /\ loop_pc = "new" => n = 0
        /\ loop_pc # "new" => Len(loop_samples) = n + 1

\* C23: GameLoop.run calls update at least once and goes on calling it,
\* once per iteration, until the first call that returns false; it returns
\* right after that call and never while every call returned true.  So
\* with a Game whose update returns false at some time, run terminates.
C23_RunsUntilUpdateReturnsFalse ==
    [](C23_CallsUntilFalse) /\ <>RunReturned

\* two frames went on and the third ended the loop
C23_Witness ==
    /\ RunReturned
    /\ Len(loop_calls) = 3
    /\ loop_calls[1].ret /\ loop_calls[2].ret /\ ~loop_calls[3].ret

RECURSIVE SumDt(_)
SumDt(calls) ==
    IF calls = <<>> THEN 0 ELSE SumDt(SubSeq(calls, 1, Len(calls) - 1)) + calls[Len(calls)].dt

\* C24: the dt of each call of update is the reading of the clock at the
\* start of that iteration minus the reading before it (for the first call
\* the reading taken before the loop); with a clock that never goes back
\* no dt is negative, and the dts add up to the last reading minus the
\* first.
C24_DtIsTimeBetweenFrames ==
    LET n == Len(loop_calls)
    IN  /\ \A i \in 1..n :
             /\ loop_calls[i].now = loop_samples[i + 1]
             /\ loop_calls[i].dt = loop_samples[i + 1] - loop_samples[i]
        /\ (\A i \in 1..n : loop_samples[i] <= loop_samples[i + 1])
              => \A i \in 1..n : loop_calls[i].dt >= 0
        /\ n >= 1 => SumDt(loop_calls) = loop_samples[n + 1] - loop_samples[1]

\* three frames of different lengths, one of them of no length
C24_Witness ==
    /\ Len(loop_calls) = 3
    /\ loop_calls[1].dt = 2 /\ loop_calls[2].dt = 0 /\ loop_calls[3].dt = 1
    /\ loop_samples[4] - loop_samples[1] = 3

---------------------------------------------------------------------------
(* Claims about dt *)

\* C25: Button.process and SelectableArea.process ignore dt: from the state
\* and with the batch of any call, every dt gives the output batch and the
\* state after the call that the dt of the call gave.
C25_ProcessIgnoresDt ==
    /\ ButtonCalled =>
         \A dt \in Durations :
            LET r == ButtonProcessDt(ButtonCall.pre, ButtonCall.input, dt)
            IN  /\ r.out = ButtonCall.output
                /\ r.st = button_self
                /\ r.panic = ButtonCall.panicked
    /\ AreaCalled =>
         \A dt \in Durations :
            LET r == AreaProcessDt(AreaCall.pre, AreaCall.input, dt)
            IN  /\ (IF r.panic THEN <<>> ELSE r.out) = AreaCall.output
                /\ r.st = area_self
                /\ r.panic = AreaCall.panicked

\* a press turned into ButtonPressed in a call with no time elapsed, after
\* the area took a press in a call of its own
C25_Witness ==
    /\ ButtonCalled
    /\ ButtonCall.dt = 0
    /\ ButtonCall.input = <<CursorPressed(50, 50, "Left")>>
    /\ ButtonCall.output # ButtonCall.input
    /\ ButtonCall.pre # button_self
    /\ area_self.pressed # None

---------------------------------------------------------------------------
(* Claims about the map of the Cursor *)

\* the buttons of the raw MouseInput events of a batch
MouseInputButtons(input) ==
    {input[j].button : j \in {i \in 1..Len(input) : input[i].kind = "MouseInput"}}

\* the buttons whose raw MouseInput events the call that made this step
\* processed
ButtonsProcessed ==
    IF cursor_call = None /\ cursor_call' # None
    THEN MouseInputButtons(Unwrap(cursor_call').input)
    ELSE {}

\* the events a call pushed after its filter_map
SweepEvents(c) == SubSeq(c.output, NumEmitted(c) + 1, Len(c.output))

\* C26: the pressed map of the Cursor has an entry for a button only if a
\* raw MouseInput (Pressed or Released) for that button has been processed:
\* the map of a new Cursor is empty and a step adds entries only for the
\* buttons of the MouseInput events of the batch it processed; the
\* CursorPressed events the Cursor reports are for buttons of the map.
C26_PressedHoldsObservedButtons ==
    /\ DOMAIN cursor_pressed = {}
    /\ [][DOMAIN cursor_pressed' \subseteq DOMAIN cursor_pressed \cup ButtonsProcessed]_vars
    /\ [](CursorCalled =>
            \A k \in 1..Len(SweepEvents(CursorCall)) :
               /\ SweepEvents(CursorCall)[k].kind = "CursorPressed"
               /\ SweepEvents(CursorCall)[k].button \in DOMAIN cursor_pressed)

\* Left was pressed and is reported; Right was never met, has no entry and
\* is not reported
C26_Witness ==
    /\ CursorCalled
    /\ CursorCall.pre = CursorNew
    /\ CursorCall.input = <<MouseMoved(50, 50), MouseInput("Pressed", "Left")>>
    /\ DOMAIN cursor_pressed = {"Left"}
    /\ CursorCall.output = <<CursorPressed(50, 50, "Left")>>

---------------------------------------------------------------------------
(* Claims about what the fields of the Cursor stand for *)

\* the held flag of button b in the map pressed: a button with no entry is
\* not held
HeldIn(pressed, b) == b \in DOMAIN pressed /\ pressed[b]

\* the places of the raw MouseInput events for button b in a batch
InputsFor(input, b) ==
    {j \in 1..Len(input) : input[j].kind = "MouseInput" /\ input[j].button = b}

\* C39: after any sequence of calls, the held flag of every button b is true
\* exactly when the most recent raw MouseInput for b was Pressed, and the
\* position is that of the most recent MouseMoved (None if there was none).
\* Stated step by step: a new Cursor holds no button and knows no position;
\* the fields change only in a call, which starts from the fields as they
\* were; after a call the flag of b is that of the last MouseInput for b in
\* the batch, or the flag before the call when the batch has none, and the
\* position is that of the last MouseMoved of the batch, or the position
\* before the call.  A button pressed before any move and still held is
\* reported by one CursorPressed at the new position, among the events the
\* call pushes itself, in the call that learns the first position.
C39_HeldStateInvariant ==
    /\ cursor_pos = None
    /\ \A b \in CursorButtons : ~HeldIn(cursor_pressed, b)
    /\ [][<<cursor_pos, cursor_pressed>>' # <<cursor_pos, cursor_pressed>>
            => /\ cursor_call = None
               /\ cursor_call' # None
               /\ Unwrap(cursor_call').pre
                     = [pos |-> cursor_pos, pressed |-> cursor_pressed]]_vars
    /\ [](CursorCalled =>
            LET c == CursorCall
            IN  /\ \A b \in CursorButtons :
                      HeldIn(cursor_pressed, b)
                        = IF InputsFor(c.input, b) = {}
                          THEN HeldIn(c.pre.pressed, b)
                          ELSE c.input[MaxOf(InputsFor(c.input, b))].phase = "Pressed"
                /\ cursor_pos = PosBefore(c, Len(c.input) + 1)
                /\ (c.pre.pos = None /\ IsSome(cursor_pos)) =>
                      \A b \in CursorButtons :
                         HeldIn(cursor_pressed, b) =>
                            Cardinality({k \in 1..Len(SweepEvents(c)) :
                                 SweepEvents(c)[k]
                                    = CursorPressed(Unwrap(cursor_pos)[1],
                                                    Unwrap(cursor_pos)[2], b)}) = 1)

\* Left was pressed in an earlier call, before any move; the call that
\* learns the first position reports it
C39_Witness ==
    /\ CursorCalled
    /\ CursorCall.pre = [pos |-> None, pressed |-> [b \in {"Left"} |-> TRUE]]
    /\ CursorCall.input = <<MouseInput("Released", "Right"), MouseMoved(10, 50)>>
    /\ CursorCall.output = <<CursorPressed(10, 50, "Left")>>
    /\ cursor_pos = Some(<<10, 50>>)
    /\ ~HeldIn(cursor_pressed, "Right")

---------------------------------------------------------------------------
(* Claims about the Button and the ids of touches *)

\* the batch with the id of every touch replaced by f[id]; the other events
\* are left as they are
RenameTouches(batch, f) ==
    [i \in 1..Len(batch) |->
        IF batch[i].kind = "Touch" THEN [batch[i] EXCEPT !.id = f[batch[i].id]]
        ELSE batch[i]]

\* the ids a finger can be given in place of its own
OtherTouchIds == TouchIds \cup {7}

\* C31: touch-id blindness.  The Button has one pressed flag for the mouse
\* and all touches, and nothing it does depends on the id of a touch: from
\* the state and with the batch of any call, the same batch with the ids of
\* its touches changed in any way gives the same state after every event and
\* the same output, the touches passed through carrying their changed ids.
\* So while the Button is pressed a touch Ended of any id, and a
\* CursorReleased(Left), ends the press whoever began it (ButtonReleased or
\* ButtonCanceled is returned, the flag is false after it), and a touch
\* Cancelled of any id is answered by ButtonCanceled.
C31_TouchIdBlind ==
    (ButtonCalled /\ ~ButtonCall.panicked) =>
        LET c == ButtonCall
        IN  /\ \A f \in [TouchIds -> OtherTouchIds] :
                  LET r == ButtonFilterMap(c.pre, RenameTouches(c.input, f))
                  IN  /\ r.st = button_self
                      /\ r.trace = c.trace
                      /\ r.out = RenameTouches(c.output, f)
                      /\ ~r.panic
            /\ \A i \in 1..Len(c.input) :
                  PressedBefore(c, i) =>
                     /\ (IsTouch(c.input[i], "Ended") \/ IsLeftRelease(c.input[i])) =>
                           /\ ~PressedAfter(c, i)
                           /\ c.output[i] \in {ButtonReleased(c.pre.id),
                                                ButtonCanceled(c.pre.id)}
                     /\ IsTouch(c.input[i], "Cancelled") =>
                           c.output[i] = ButtonCanceled(c.pre.id)

\* finger 0 presses the Button and the end of finger 1 releases it; the
\* mouse presses it and the end of finger 1, outside, cancels the press
C31_Witness ==
    /\ ButtonCalled
    /\ ~ButtonCall.pre.pressed
    /\ ButtonCall.pre.width = 20
    /\ ButtonCall.input = <<Touch("Started", 101, 101, 0), Touch("Ended", 101, 101, 1),
                            CursorPressed(50, 50, "Left")>>
    /\ ButtonCall.output = <<ButtonPressed(ButtonId), ButtonReleased(ButtonId),
                             ButtonPressed(ButtonId)>>
    /\ button_self.pressed

---------------------------------------------------------------------------
(* Claims about a chain Cursor -> Button A -> Button B *)

FrameEnded == pipe_frame # None
Frame      == Unwrap(pipe_frame)

\* C32: no stuck widget in a chain.  After every frame at whose end the
\* Cursor's held flag of Left is false, neither Button A nor Button B is
\* pressed (the frames are batches of raw mouse events).
C32_NoStuckWidget ==
    (FrameEnded /\ ~HeldIn(pipe_cursor.pressed, "Left")) =>
        (~pipe_a.pressed /\ ~pipe_b.pressed)

\* the Cursor's part of a frame, as the record of a call of Cursor::process
CursorOfFrame ==
    [pre |-> Frame.pre.cursor, input |-> Frame.raw, output |-> Frame.cursor_out]

\* button b is held just before the i-th raw event of the batch of call c
HeldBefore(c, b, i) ==
    LET earlier == {j \in InputsFor(c.input, b) : j < i}
    IN  IF earlier = {} THEN HeldIn(c.pre.pressed, b)
        ELSE c.input[MaxOf(earlier)].phase = "Pressed"

\* the raw events i and j of the batch of call c are a click of button b:
\* b is not held before i, i is its press, j its release, the next raw event
\* for b, and the position is known at j
IsClick(c, b, i, j) ==
    /\ i < j
    /\ c.input[i] = MouseInput("Pressed", b)
    /\ c.input[j] = MouseInput("Released", b)
    /\ \A k \in InputsFor(c.input, b) : ~(i < k /\ k < j)
    /\ ~HeldBefore(c, b, i)
    /\ IsSome(PosBefore(c, j))

\* a Button event of Button b
IsButtonEventOf(e, b) ==
    e \in {ButtonPressed(b.id), ButtonReleased(b.id), ButtonCanceled(b.id)}

\* C33: a click within one frame.  When a raw press and then a raw release
\* of one button stand in one batch (the button not held before the press,
\* the position known at the release), the Cursor returns CursorReleased
\* for that button where the release stood, at the position known then;
\* unless a new press follows in the batch the button is not held after the
\* call and the call returns no CursorPressed for it; and no frame at whose
\* end a button is not held returns a CursorPressed for it.  A Button down
\* the chain that was not pressed when the frame began returns no
\* ButtonPressed, ButtonReleased or ButtonCanceled of its own for a click of
\* Left that no new press follows, and passes the CursorReleased on.
C33_ClickWithinOneFrame ==
    FrameEnded =>
        LET c == CursorOfFrame
        IN  /\ \A b \in CursorButtons :
                  /\ ~HeldIn(pipe_cursor.pressed, b) =>
                        \A k \in 1..Len(c.output) :
                           ~(c.output[k].kind = "CursorPressed" /\ c.output[k].button = b)
                  /\ \A i, j \in 1..Len(c.input) :
                        IsClick(c, b, i, j) =>
                           LET p == Unwrap(PosBefore(c, j))
                               last == \A k \in InputsFor(c.input, b) : k <= j
                               rel == CursorReleased(p[1], p[2], b)
                           IN  /\ OutIndex(c, j) <= Len(c.output)
                               /\ c.output[OutIndex(c, j)] = rel
                               /\ last => ~HeldIn(pipe_cursor.pressed, b)
                               /\ (last /\ b = "Left" /\ ~Frame.pre.a.pressed) =>
                                     /\ \A k \in 1..Len(Frame.a_out) :
                                           ~IsButtonEventOf(Frame.a_out[k], pipe_a)
                                     /\ Frame.a_out = c.output
                                     /\ ~pipe_a.pressed
                               /\ (last /\ b = "Left" /\ ~Frame.pre.a.pressed
                                        /\ ~Frame.pre.b.pressed) =>
                                     /\ \A k \in 1..Len(Frame.b_out) :
                                           ~IsButtonEventOf(Frame.b_out[k], pipe_b)
                                     /\ Frame.b_out = c.output
                                     /\ ~pipe_b.pressed

\* the pointer rests inside Button A, Right is held; Left is pressed and
\* released within the frame: both Buttons pass the CursorReleased on
C33_Witness ==
    /\ FrameEnded
    /\ Frame.pre.cursor = [pos |-> Some(<<50, 50>>), pressed |-> [b \in {"Right"} |-> TRUE]]
    /\ ~Frame.pre.a.pressed
    /\ ~Frame.pre.b.pressed
    /\ Frame.raw = <<MouseInput("Pressed", "Left"), MouseInput("Released", "Left")>>
    /\ Frame.cursor_out = <<CursorReleased(50, 50, "Left"), CursorPressed(50, 50, "Right")>>
    /\ Frame.a_out = Frame.cursor_out
    /\ Frame.b_out = Frame.cursor_out
    /\ ~pipe_a.pressed

\* how many times the event e stands in the batch
NumOf(batch, e) == Cardinality({k \in 1..Len(batch) : batch[k] = e})

\* the frame has a raw press, a raw release of Left
HasRawPress(c)   == \E i \in 1..Len(c.input) : c.input[i] = MouseInput("Pressed", "Left")
HasRawRelease(c) == \E i \in 1..Len(c.input) : c.input[i] = MouseInput("Released", "Left")

\* the pointer is inside Button A at the end of the frame
PointerInsideA ==
    /\ IsSome(pipe_cursor.pos)
    /\ InRect(pipe_a, Unwrap(pipe_cursor.pos)[1], Unwrap(pipe_cursor.pos)[2])

\* the frame is the first of a press of Button A: Left was not held, the
\* frame has a raw press and no raw release after it, and the pointer is
\* inside A when the frame ends
StartsPress(c) ==
    /\ ~HeldIn(c.pre.pressed, "Left")
    /\ HasRawPress(c)
    /\ HeldIn(pipe_cursor.pressed, "Left")
    /\ PointerInsideA

\* the frame goes on with a press of Button A: Left is held, A is pressed,
\* and the frame has no raw release of Left
ContinuesPress(c) ==
    /\ HeldIn(c.pre.pressed, "Left")
    /\ Frame.pre.a.pressed
    /\ ~HasRawRelease(c)

\* the frame has the raw release that ends a press of Button A
EndsPress(c) ==
    /\ HeldIn(c.pre.pressed, "Left")
    /\ Frame.pre.a.pressed
    /\ HasRawRelease(c)

\* what Button A returns in the frames before the release: one
\* ButtonPressed, and it stays pressed
OnePressedPerFrame(c) ==
    (StartsPress(c) \/ ContinuesPress(c)) =>
        /\ NumOf(Frame.a_out, ButtonPressed(pipe_a.id)) = 1
        /\ NumOf(Frame.a_out, ButtonReleased(pipe_a.id)) = 0
        /\ NumOf(Frame.a_out, ButtonCanceled(pipe_a.id)) = 0
        /\ pipe_a.pressed
        /\ HeldIn(pipe_cursor.pressed, "Left")

\* C34 as stated: Cursor -> Button over frames.  With the pointer inside
\* the Button's rectangle (when the frame of the press ends), every frame
\* from the one with the raw Left press up to the one before the raw Left
\* release makes the Button return exactly one ButtonPressed(id), also when
\* the batch is empty or the pointer moves outside; the frame with the raw
\* Left release makes it return exactly one ButtonReleased(id) or
\* ButtonCanceled(id) and no ButtonPressed(id).
C34_OnePressedPerFrameThenRelease ==
    FrameEnded =>
        LET c == CursorOfFrame
        IN  /\ OnePressedPerFrame(c)
            /\ EndsPress(c) =>
                  /\ NumOf(Frame.a_out, ButtonReleased(pipe_a.id))
                        + NumOf(Frame.a_out, ButtonCanceled(pipe_a.id)) = 1
                  /\ NumOf(Frame.a_out, ButtonPressed(pipe_a.id)) = 0

\* C34 as amended: in the frames before the release the Button returns
\* exactly one ButtonPressed(id), as stated.  The frame with the raw Left
\* release makes it return exactly one ButtonReleased(id) or
\* ButtonCanceled(id), and no ButtonPressed(id) when Left is not held at the
\* end of the frame; when a new raw press follows the release in the frame
\* and the pointer is inside the rectangle at its end, the Button returns
\* one ButtonPressed(id) after the release and is pressed again.
C34_ReleaseThenPerhapsPressAgain ==
    FrameEnded =>
        LET c == CursorOfFrame
            again == HeldIn(pipe_cursor.pressed, "Left") /\ PointerInsideA
        IN  /\ OnePressedPerFrame(c)
            /\ EndsPress(c) =>
                  /\ NumOf(Frame.a_out, ButtonReleased(pipe_a.id))
                        + NumOf(Frame.a_out, ButtonCanceled(pipe_a.id)) = 1
                  /\ NumOf(Frame.a_out, ButtonPressed(pipe_a.id))
                        = (IF again THEN 1 ELSE 0)
                  /\ pipe_a.pressed = again
                  /\ \A k \in 1..Len(Frame.a_out) :
                        Frame.a_out[k] = ButtonPressed(pipe_a.id) =>
                           \E j \in 1..(k - 1) :
                              Frame.a_out[j] \in {ButtonReleased(pipe_a.id),
                                                  ButtonCanceled(pipe_a.id)}

\* Button A is pressed and the pointer rests inside it; the frame has the
\* release of Left and a new press: A returns ButtonReleased and then
\* ButtonPressed
C34_Witness ==
    /\ FrameEnded
    /\ Frame.pre.cursor = [pos |-> Some(<<50, 50>>), pressed |-> [b \in {"Left"} |-> TRUE]]
    /\ Frame.pre.a.pressed
    /\ Frame.raw = <<MouseInput("Released", "Left"), MouseInput("Pressed", "Left")>>
    /\ Frame.a_out = <<ButtonReleased(1), ButtonPressed(1)>>
    /\ pipe_a.pressed

---------------------------------------------------------------------------
(* Claims about Matrix *)

MathCalled == math_call # None
MathCall   == Unwrap(math_call)
IsMul      == MathCalled /\ MathCall.op = "mul"
IsInv      == MathCalled /\ MathCall.op = "inv"

AllFinite(m) == \A i \in 1..16 : IsFinite(m[i])

\* C27 as stated: for every Matrix M, M * Matrix::ident() == M and
\* Matrix::ident() * M == M.
C27_IdentityLaws ==
    IsMul => MatrixEq(Unwrap(MathCall.result), math_self)

\* C27: for every Matrix M whose sixteen entries are finite numbers,
\* M * Matrix::ident() == M and Matrix::ident() * M == M, entry by entry;
\* for a Matrix with an entry that is NaN or an infinity neither product
\* compares equal to M.
C27_IdentityLawsOfFiniteMatrices ==
    IsMul => (MatrixEq(Unwrap(MathCall.result), math_self) <=> AllFinite(math_self))

\* the identity on the right of a matrix with a fraction on its diagonal
C27_Witness ==
    /\ IsMul
    /\ math_self = Diagonal(Frac(1, 2), FInt(3), One, One)
    /\ MathCall.l = math_self /\ MathCall.r = MatrixIdent
    /\ Unwrap(MathCall.result) = math_self

\* the entry of m in a row and a column, both counted from 0
Entry(m, row, col) == m[4 * col + row + 1]

\* the determinant by the sum over the permutations of the columns
Perms4 == {p \in [0..3 -> 0..3] : \A i, j \in 0..3 : p[i] = p[j] => i = j}
Sign(p) ==
    IF Cardinality({ij \in (0..3) \X (0..3) : ij[1] < ij[2] /\ p[ij[1]] > p[ij[2]]}) % 2 = 0
    THEN One ELSE FNeg(One)
Term(m, p) ==
    FMul(Sign(p), FMul(FMul(Entry(m, 0, p[0]), Entry(m, 1, p[1])),
                       FMul(Entry(m, 2, p[2]), Entry(m, 3, p[3]))))
RECURSIVE SumTerms(_, _)
SumTerms(m, ps) ==
    IF ps = {} THEN Zero
    ELSE LET p == CHOOSE q \in ps : TRUE
         IN  FAdd(Term(m, p), SumTerms(m, ps \ {p}))
Determinant(m) == SumTerms(m, Perms4)

C28_WitnessReturns ==
    /\ IsInv
    /\ math_self = Diagonal(Frac(1, 2), FInt(3), One, One)
    /\ MathCall.result = Some(Diagonal(FInt(2), Frac(1, 3), One, One))

---------------------------------------------------------------------------
(* Claims about BezierPath *)

IsInterpolate == MathCalled /\ MathCall.op = "interpolate"

\* the sum of the lengths of the curves of a path, each measured as
\* BezierPath::new measures it
TotalLength(path) ==
    SumF([i \in 1..Len(path.curves) |-> BezierLen(path.curves[i], STEPS)])

\* C29: interpolating a BezierPath that has no curves, or whose total
\* length is zero, panics for every ratio and returns no value.
C29_DegeneratePathPanics ==
    IsInterpolate /\ (\/ Len(MathCall.l.curves) = 0
                      \/ FEq(TotalLength(MathCall.l), Zero))
        => MathCall.panicked /\ MathCall.result = None

---------------------------------------------------------------------------
(* Claims about the guards of SelectableArea *)

\* the arms in the order of the source, and every order of the six arms
SourceOrder == <<1, 2, 3, 4, 5, 6>>
ArmOrders == {o \in [1..6 -> 1..6] : \A i, j \in 1..6 : o[i] = o[j] => i = j}

HasSpecialLeft(a) == IsSome(a.special) /\ Unwrap(a.special).button = "Left"

\* a call of SelectableArea::process on a batch of one CursorPressed or
\* CursorReleased event
OneCursorEvent ==
    AreaCalled /\ Len(AreaCall.input) = 1 /\ IsCursorEvent(AreaCall.input[1])

\* the arms whose pattern and guard hold for the event of the call
Holding == {g \in 1..6 : AreaGuard(g, AreaCall.pre, AreaCall.input[1])}

\* what the call did is what the match with its arms in the order o does
SameAsInOrder(o) ==
    LET r == AreaClosureInOrder(o, AreaCall.pre, AreaCall.input[1])
    IN  /\ r.panic = AreaCall.panicked
        /\ ~r.panic => r.st = area_self /\ r.emit = AreaCall.output

\* where the arm g stands in the order o
Place(o, g) == CHOOSE i \in 1..6 : o[i] = g

\* C30 as stated: for every configuration, every pair of slot states and
\* every CursorPressed or CursorReleased event at most one of the six
\* guards holds, and the output and the state after the event are the same
\* in whatever order the guards are evaluated.
C30_GuardsExclusive ==
    OneCursorEvent =>
        /\ Cardinality(Holding) <= 1
        /\ \A o \in ArmOrders : SameAsInOrder(o)

\* C30: a guard of a press arm and a guard of a release arm never hold
\* together, and for an area whose special button is not Left (or that has
\* none) no guard of the primary channel holds together with a guard of the
\* special channel.  The guard of a press-new arm implies the guard of the
\* press-drag arm of its channel, and with special button Left no special
\* guard holds unless a primary guard does.  So the output and the state
\* are those of the source in every order that keeps press-new before
\* press-drag in both channels and, for special button Left, the primary
\* arms before the special arms.
C30_GuardsExclusiveAcrossChannels ==
    OneCursorEvent =>
        /\ Holding \cap {1, 2, 4, 5} = {} \/ Holding \cap {3, 6} = {}
        /\ ~HasSpecialLeft(AreaCall.pre)
              => Holding \cap {1, 2, 3} = {} \/ Holding \cap {4, 5, 6} = {}
        /\ 1 \in Holding => 2 \in Holding
        /\ 4 \in Holding => 5 \in Holding
        /\ HasSpecialLeft(AreaCall.pre) /\ Holding \cap {4, 5, 6} # {}
              => Holding \cap {1, 2, 3} # {}
        /\ \A o \in ArmOrders :
              /\ Place(o, 1) < Place(o, 2)
              /\ Place(o, 4) < Place(o, 5)
              /\ HasSpecialLeft(AreaCall.pre)
                    => \A g \in {1, 2, 3}, h \in {4, 5, 6} : Place(o, g) < Place(o, h)
              => SameAsInOrder(o)

\* with special button Left, a Left press inside an area with both slots
\* empty: the guards of both press arms of both channels hold, and the
\* primary press-new arm is the one taken
C30_Witness ==
    /\ OneCursorEvent
    /\ HasSpecialLeft(AreaCall.pre)
    /\ AreaCall.input = <<CursorPressed(50, 50, "Left")>>
    /\ Holding = {1, 2, 4, 5}
    /\ AreaCall.output = <<SelectablePressed(AreaId, 50, 50)>>
    /\ area_self.special_pressed = None

---------------------------------------------------------------------------
(* Claims about SelectableArea::process: the unwraps, a release outside and
   a special button that is Left *)

\* the fields of the area just before the i-th event of the batch
AreaBefore(c, i) ==
    [c.pre EXCEPT !.pressed = SlotBefore(c, i), !.special_pressed = SpecialBefore(c, i)]

\* the arm of the match taken for an event: the first whose pattern and
\* guard hold, 0 for the default arm
ArmTaken(self, event) ==
    LET holding == {g \in 1..6 : AreaGuard(g, self, event)}
    IN  IF holding = {} THEN 0 ELSE CHOOSE g \in holding : \A h \in holding : g <= h

\* C37: the two unwraps of SelectableArea::process are safe.  No call
\* panics; whenever the primary press-drag arm is taken the primary slot is
\* Some, and whenever the special press-drag arm is taken the special slot
\* is Some, for every configuration.
C37_UnwrapsAreSafe ==
    AreaCalled =>
        LET c == AreaCall
        IN  /\ ~c.panicked
            /\ Len(c.trace) = Len(c.input)
            /\ \A i \in 1..Len(c.input) :
                  /\ ArmTaken(AreaBefore(c, i), c.input[i]) = 2 => IsSome(SlotBefore(c, i))
                  /\ ArmTaken(AreaBefore(c, i), c.input[i]) = 5 => IsSome(SpecialBefore(c, i))

\* both press-drag arms taken in one call, each with its slot taken
C37_Witness ==
    /\ AreaCalled
    /\ AreaCall.pre.special = Some(SpecialSelect("Right", 0))
    /\ AreaCall.pre.pressed = Some(<<50, 50>>)
    /\ AreaCall.pre.special_pressed = Some(<<50, 50>>)
    /\ AreaCall.input = <<CursorPressed(50, 51, "Left"), CursorPressed(50, 51, "Right")>>
    /\ AreaCall.output = <<SelectableDragged(AreaId, 50, 51),
                           SelectableSpecialDragged(AreaId, 50, 51)>>
    /\ ~AreaCall.panicked

\* C38: release outside a SelectableArea.  With the primary slot Some, a
\* CursorReleased(x,y,Left) outside the rectangle is passed on unchanged and
\* the slot stays as it is; the slot goes back to None only at a
\* CursorReleased(Left) inside the rectangle, and an inside
\* CursorPressed(Left) before that is compared with the stored point.
C38_ReleaseOutsideKeepsGesture ==
    (AreaCalled /\ ~AreaCall.panicked) =>
        LET c == AreaCall
        IN  \A i \in 1..Len(c.input) :
              LET e == c.input[i]
              IN  /\ (IsLeftRelease(e) /\ ~InRect(c.pre, e.x, e.y) /\ IsSome(SlotBefore(c, i)))
                        => /\ c.output[i] = e
                           /\ SlotAfter(c, i) = SlotBefore(c, i)
                           /\ SpecialAfter(c, i) = SpecialBefore(c, i)
                  /\ (IsSome(SlotBefore(c, i)) /\ SlotAfter(c, i) = None)
                        => /\ IsLeftRelease(e) /\ InRect(c.pre, e.x, e.y)
                           /\ c.output[i] = SelectableReleased(c.pre.id, e.x, e.y)
                  /\ (IsLeftPress(e) /\ InRect(c.pre, e.x, e.y) /\ IsSome(SlotBefore(c, i)))
                        => c.output[i] = IF Unwrap(SlotBefore(c, i)) = <<e.x, e.y>>
                                         THEN SelectablePressed(c.pre.id, e.x, e.y)
                                         ELSE SelectableDragged(c.pre.id, e.x, e.y)

\* a held area met a release outside, then a press at the stored point, then
\* the release inside that ends the gesture
C38_Witness ==
    /\ AreaCalled
    /\ AreaCall.pre.pressed = Some(<<50, 50>>)
    /\ AreaCall.input = <<CursorReleased(10, 50, "Left"), CursorPressed(50, 50, "Left"),
                          CursorReleased(50, 51, "Left")>>
    /\ AreaCall.output = <<CursorReleased(10, 50, "Left"),
                           SelectablePressed(AreaId, 50, 50),
                           SelectableReleased(AreaId, 50, 51)>>
    /\ AreaCall.trace[1].pressed = Some(<<50, 50>>)
    /\ area_self.pressed = None

IsSpecialOutput(e) ==
    e.kind \in {"SelectableSpecialPressed", "SelectableSpecialDragged",
                "SelectableSpecialReleased"}

\* C40: with the special button Left, or with no special button, the
\* special channel never acts: the special slot is None in every state and
\* after every event, and no SelectableSpecialPressed, SelectableSpecialDragged
\* or SelectableSpecialReleased is returned; every Left press inside is
\* taken by the primary channel.
C40_SpecialLeftNeverActs ==
    (HasSpecialLeft(area_self) \/ area_self.special = None) =>
        /\ area_self.special_pressed = None
        /\ AreaCalled =>
              LET c == AreaCall
              IN  /\ ~c.panicked
                  /\ c.pre.special_pressed = None
                  /\ \A i \in 1..Len(c.input) :
                        /\ SpecialAfter(c, i) = None
                        /\ ~IsSpecialOutput(c.output[i])
                        /\ (IsLeftPress(c.input[i]) /\ InRect(c.pre, c.input[i].x, c.input[i].y))
                              => c.output[i].kind \in {"SelectablePressed", "SelectableDragged"}

\* an area whose special button is Left took a press, a drag and a release
\* of Left on its primary channel
C40_Witness ==
    /\ AreaCalled
    /\ HasSpecialLeft(area_self)
    /\ AreaCall.pre.pressed = None
    /\ AreaCall.input = <<CursorPressed(50, 50, "Left"), CursorPressed(50, 51, "Left"),
                          CursorReleased(50, 51, "Left")>>
    /\ AreaCall.output = <<SelectablePressed(AreaId, 50, 50),
                           SelectableDragged(AreaId, 50, 51),
                           SelectableReleased(AreaId, 50, 51)>>
    /\ area_self.special_pressed = None

---------------------------------------------------------------------------
(* Claims about the order of the events a SelectableArea returns *)

\* a gesture is open on a channel from its Pressed event to its Released
\* event.  What one returned event does to it, given the slot of the
\* channel before and after the event: Dragged and Released come only while
\* the slot is taken, Pressed leaves it taken, Released leaves it empty, and
\* nothing else changes it.
ChannelStep(out, id, before, after, pressedKind, draggedKind, releasedKind) ==
    /\ out.kind \in {draggedKind, releasedKind} => IsSome(before)
    /\ out.kind = pressedKind => IsSome(after)
    /\ out.kind = draggedKind => IsSome(after)
    /\ out.kind = releasedKind => after = None
    /\ out.kind \notin {pressedKind, draggedKind, releasedKind} => after = before
    /\ out.kind \in {pressedKind, draggedKind, releasedKind} => out.id = id

\* C36: the order of the events of a SelectableArea.  Over the calls of
\* process from creation on, the primary slot is Some exactly from a
\* SelectablePressed to the next SelectableReleased: every
\* SelectableDragged and SelectableReleased comes while it is Some, so after
\* a SelectablePressed with no SelectableReleased in between, and the first
\* primary event after creation or after a SelectableReleased is a
\* SelectablePressed.  The same holds for the special slot and the
\* SelectableSpecial events.
C36_AreaOutputOrdering ==
    /\ area_self.pressed = None /\ area_self.special_pressed = None
    /\ [][area_self' # area_self =>
             /\ area_call = None /\ area_call' # None
             /\ Unwrap(area_call').pre = area_self]_vars
    /\ [](AreaCalled =>
            LET c == AreaCall
                n == Len(c.input)
            IN  /\ ~c.panicked
                /\ Len(c.output) = n /\ Len(c.trace) = n
                /\ area_self.pressed = (IF n = 0 THEN c.pre.pressed ELSE SlotAfter(c, n))
                /\ area_self.special_pressed =
                      (IF n = 0 THEN c.pre.special_pressed ELSE SpecialAfter(c, n))
                /\ \A i \in 1..n :
                      /\ ChannelStep(c.output[i], c.pre.id, SlotBefore(c, i), SlotAfter(c, i),
                                     "SelectablePressed", "SelectableDragged",
                                     "SelectableReleased")
                      /\ ChannelStep(c.output[i], c.pre.id,
                                     SpecialBefore(c, i), SpecialAfter(c, i),
                                     "SelectableSpecialPressed", "SelectableSpecialDragged",
                                     "SelectableSpecialReleased"))

\* a gesture opened in an earlier call is dragged and released, and the
\* next primary event is a SelectablePressed again
C36_Witness ==
    /\ AreaCalled
    /\ AreaCall.pre.pressed = Some(<<50, 50>>)
    /\ AreaCall.input = <<CursorPressed(50, 51, "Left"), CursorReleased(50, 51, "Left"),
                          CursorPressed(50, 51, "Left")>>
    /\ AreaCall.output = <<SelectableDragged(AreaId, 50, 51),
                           SelectableReleased(AreaId, 50, 51),
                           SelectablePressed(AreaId, 50, 51)>>
    /\ area_self.pressed = Some(<<50, 51>>)

---------------------------------------------------------------------------
(* Claims about the order of the events a Button returns *)

\* C35: the order of the events of a Button.  Over the calls of process
\* from creation on, ButtonReleased(id) and ButtonCanceled(id) are returned
\* only while self.pressed is true, self.pressed becomes true only with a
\* ButtonPressed(id), and a ButtonReleased(id) leaves it false: so every
\* ButtonReleased(id) and ButtonCanceled(id) comes after a ButtonPressed(id),
\* and between two ButtonReleased(id) there is a ButtonPressed(id).
C35_ButtonOutputOrdering ==
    /\ ~button_self.pressed
    /\ [][button_self' # button_self =>
             /\ button_call = None /\ button_call' # None
             /\ Unwrap(button_call').pre = button_self]_vars
    /\ [](ButtonCalled =>
            LET c == ButtonCall
                n == Len(c.input)
            IN  /\ ~c.panicked
                /\ Len(c.output) = n /\ Len(c.trace) = n
                /\ button_self.pressed = (IF n = 0 THEN c.pre.pressed ELSE PressedAfter(c, n))
                /\ \A i \in 1..n :
                      /\ c.output[i].kind \in {"ButtonReleased", "ButtonCanceled"}
                            => PressedBefore(c, i) /\ c.output[i].id = c.pre.id
                      /\ c.output[i].kind = "ButtonReleased" => ~PressedAfter(c, i)
                      /\ (~PressedBefore(c, i) /\ PressedAfter(c, i))
                            => c.output[i] = ButtonPressed(c.pre.id))

\* a Button pressed in an earlier call is released, pressed and released
\* again
C35_Witness ==
    /\ ButtonCalled
    /\ ButtonCall.pre.pressed
    /\ ButtonCall.input = <<CursorReleased(50, 50, "Left"), CursorPressed(50, 50, "Left"),
                            Touch("Ended", 101, 101, 0)>>
    /\ ButtonCall.output = <<ButtonReleased(ButtonId), ButtonPressed(ButtonId),
                             ButtonReleased(ButtonId)>>
    /\ ~button_self.pressed

=============================================================================
